---- MODULE Spec2Model ----
(***************************************************************************)
(* Capture session state machine of vibe-clips                             *)
(* (src-tauri/src/screen_capture.rs, src-tauri/src/audio_capture.rs),      *)
(* Windows build.  Callers are the threads that invoke the three commands  *)
(* start_screen_recording_process, stop_screen_recording_process and       *)
(* get_recording_status.  A command is cut into atomic steps at the points *)
(* where it can block (lock acquisition, thread join, poll sleep) or where *)
(* it touches the file system or an external process.                      *)
(*                                                                         *)
(* Time is counted in microseconds (std::time::Instant has nanosecond      *)
(* resolution; Duration::as_secs_f64 is modelled exactly, as a number of   *)
(* microseconds).                                                          *)
(***************************************************************************)
EXTENDS Integers, FiniteSets, Sequences, TLC

VARIABLES
    session,        \* RECORDING_SESSION (screen_capture.rs:24-32)
    sessionLock,    \* holder of the RECORDING_SESSION mutex, 0 = free
    ffmpeg_child,   \* FFMPEG_CHILD: 0 = None, else the pid of the stored Child
    childLock,      \* holder of the FFMPEG_CHILD mutex, 0 = free
    audio_state,    \* AUDIO_STATE (audio_capture.rs:11-17)
    procs,          \* video capture processes that were spawned and not yet reaped
    threads,        \* audio capture threads that were spawned and not yet joined
    files,          \* file system: file name -> content
    clock,          \* Instant::now(), in microseconds
    next_pid,       \* next process id the OS hands out
    next_tid,       \* next thread handle
    pc,             \* per caller: position in the command it runs
    local,          \* per caller: local variables of the command it runs
    ret,            \* the value the last return delivered (cleared when a
                    \* command that does not return at once begins)
    off_in,         \* offset computation alone: the two timestamps
    off_out,        \* offset computation alone: offset and audio filter
    off_pc,         \* offset computation alone: position
    ex_in,          \* export: the timeline, output path and subtitle path given
    ex_pc,          \* export: position in the attempt
    ex_local,       \* export: local variables of export_video_blocking
    ex_files,       \* export: file system, file name -> content
    ex_log,         \* export: the engine invocations of the attempt, in order
    ex_created,     \* export: the names of the files the attempt has written
    ex_ret,         \* export: the value the attempt returned
    fn_in,          \* a function on its own: the arguments drawn
    fn_out,         \* a function on its own: the value it returned
    fn_pc           \* a function on its own: "off", "idle", "drawn", "applied"

vars == <<session, sessionLock, ffmpeg_child, childLock, audio_state, procs,
          threads, files, clock, next_pid, next_tid, pc, local, ret,
          off_in, off_out, off_pc,
          ex_in, ex_pc, ex_local, ex_files, ex_log, ex_created, ex_ret,
          fn_in, fn_out, fn_pc>>

captureVars == <<session, sessionLock, ffmpeg_child, childLock, audio_state,
                 procs, threads, files, clock, next_pid, next_tid, pc, local, ret>>

offsetVars == <<off_in, off_out, off_pc>>

exportVars == <<ex_in, ex_pc, ex_local, ex_files, ex_log, ex_created, ex_ret>>

fnVars == <<fn_in, fn_out, fn_pc>>

-----------------------------------------------------------------------------
(* Bounds of the model *)

\* number of capture sessions (successful spawns of the video process)
MaxSessions == 2

\* the threads that issue commands
Callers == {1, 2}

\* output paths handed to start: one that is accepted and one that is rejected
OutputPaths == {"a.mp4", "c.avi"}

\* scheduling delay, in microseconds, added to the warm-up sleep before the
\* audio timestamp is taken
Jitter == {0, 400}

\* timestamps (microseconds) the offset computation is tried on; none lies
\* on a half millisecond, where the {:.3} formatting depends on the binary
\* representation of the f64
Instants == {0, 300, 1000, 1700, 2400, 100000, 100400, 101000, 250000}

-----------------------------------------------------------------------------
(* Values *)

None == -1

NoFile == <<"absent", 0>>

NoSession ==
    [is_recording |-> FALSE, output_path |-> "", start_time |-> None,
     ffmpeg_process |-> None, audio_start_time |-> None,
     video_start_time |-> None]

NoAudioState == [is_recording |-> FALSE, stop_signal |-> 0, recording_thread |-> 0]

NoLocal ==
    [output_path |-> "", video_start |-> None, audio_start |-> None, pid |-> 0,
     has_audio |-> FALSE, audio_offset |-> 0, polls |-> 0, join |-> 0,
     device_opened |-> FALSE, filter |-> [kind |-> "none", ms |-> 0],
     order |-> <<>>]

\* a returned value: the command, Ok or Err, the payload, and (not part of the
\* value) the way a stop took: "muxed", "fallback" or "video_only"
NoRet == [op |-> "none", ok |-> TRUE, val |-> <<>>, via |-> "none"]

Ok(op, v, via) == [op |-> op, ok |-> TRUE, val |-> v, via |-> via]

Err(op, msg) == [op |-> op, ok |-> FALSE, val |-> <<msg>>, via |-> "none"]

\* output_path.ends_with(".mp4")
EndsWithMp4(p) == p = "a.mp4"

\* output_path.replace(".mp4", "_video.mp4")
VideoOnlyPath(p) ==
    IF p = "a.mp4" THEN "a_video.mp4" ELSE p

\* output_path.replace(".mp4", "_audio.wav")
AudioPath(p) ==
    IF p = "a.mp4" THEN "a_audio.wav" ELSE p

FileNames ==
    {p : p \in {q \in OutputPaths : EndsWithMp4(q)}}
    \cup {VideoOnlyPath(p) : p \in {q \in OutputPaths : EndsWithMp4(q)}}
    \cup {AudioPath(p) : p \in {q \in OutputPaths : EndsWithMp4(q)}}

Exists(f) == files[f] # NoFile

Running == {p \in procs : p.st = "running"}

ProcOf(pid) == CHOOSE p \in procs : p.pid = pid

-----------------------------------------------------------------------------
(* Offset computation and audio filter of the mux step *)

Abs(x) == IF x < 0 THEN -x ELSE x

AudioOffset_Swapped(audio_start, video_start) ==
    IF audio_start # None /\ video_start # None
    THEN audio_start - video_start
    ELSE 0

\* Lines 215-226: audio_offset_secs, in microseconds
AudioOffset(audio_start, video_start) ==
    IF audio_start # None /\ video_start # None
    THEN IF audio_start < video_start
         THEN video_start - audio_start
         ELSE -(audio_start - video_start)
    ELSE 0

\* format!("{:.3}", secs): seconds rounded to whole milliseconds
FormatMillis(us) == (us + 500) \div 1000

\* (-audio_offset_secs * 1000.0) as i32: truncation toward zero
DelayMs(offset) == (-offset) \div 1000

AudioFilter_SwappedBranches(offset) ==
    IF Abs(offset) > 1000
    THEN IF offset > 0
         THEN [kind |-> "adelay", ms |-> offset \div 1000]
         ELSE [kind |-> "atrim", ms |-> FormatMillis(-offset)]
    ELSE [kind |-> "apad", ms |-> 0]

\* Lines 324-337: the -af argument of the mux command
AudioFilter(offset) ==
    IF Abs(offset) > 1000
    THEN IF offset > 0
         THEN [kind |-> "atrim", ms |-> FormatMillis(offset)]
         ELSE [kind |-> "adelay", ms |-> DelayMs(offset)]
    ELSE [kind |-> "apad", ms |-> 0]

-----------------------------------------------------------------------------
(* Values of the export: timelines, the file system, engine outcomes *)

\* Option<String> and Option<PathBuf>: None
NoPath == ""

\* largest number of clips of a timeline
MaxClips == 2

\* ClipData.file_path: a file that exists and one that does not
ClipFiles == {"x.mp4", "m.mp4"}

\* ClipData.start_time, in seconds
StartTimes == {0, 3, 5}

\* ClipData.track
Tracks == {0, 1, 2}

\* outputPath
ExportPaths == {"o.mp4", "o.mov", "o.avi"}

\* subtitleSrtPath: None, a file that exists, a file that does not
SubtitlePaths == {NoPath, "s.srt", "q.srt"}

\* ClipData (lib.rs:92-99); trim_start, duration and filters only shape the
\* arguments of a step
ClipPool == [file_path : ClipFiles, start_time : StartTimes, track : Tracks]

Timelines == UNION {[1..n -> ClipPool] : n \in 0..MaxClips}

\* the files on disk when an attempt begins
ExportFs0 ==
    [f \in {"x.mp4", "s.srt"} |-> IF f = "x.mp4" THEN <<"source">> ELSE <<"srt">>]

\* Path::new(p).exists()
PathExists(fs, p) == p \in DOMAIN fs

\* a file is written (created or replaced)
Put(fs, name, content) ==
    [f \in DOMAIN fs \cup {name} |-> IF f = name THEN content ELSE fs[f]]

\* let _ = std::fs::remove_file(f), for each f of names
Remove(fs, names) == [f \in DOMAIN fs \ names |-> fs[f]]

Range(s) == {s[i] : i \in DOMAIN s}

\* outputPath.ends_with(".mp4") || outputPath.ends_with(".mov") (line 580)
SupportedExtension(p) == p \in {"o.mp4", "o.mov"}

SortByStartTime_Unsorted(s) == s

RECURSIVE InsertByStartTime(_, _)
\* place clip c behind every clip of the sorted s whose start_time is not
\* greater (the sort is stable)
InsertByStartTime(s, c) ==
    IF s = <<>> THEN <<c>>
    ELSE IF s[Len(s)].start_time <= c.start_time THEN Append(s, c)
    ELSE Append(InsertByStartTime(SubSeq(s, 1, Len(s) - 1), c), s[Len(s)])

RECURSIVE SortPrefix(_, _)
SortPrefix(s, n) ==
    IF n = 0 THEN <<>> ELSE InsertByStartTime(SortPrefix(s, n - 1), s[n])

\* sort_by(|a, b| a.start_time.partial_cmp(&b.start_time).unwrap())
\* (lines 599, 901, 1289): a stable sort on start_time
SortByStartTime(s) == SortPrefix(s, Len(s))

\* iter().filter(|c| c.track == t).collect() (lines 893-895)
RECURSIVE OnTrack(_, _)
OnTrack(s, t) ==
    IF s = <<>> THEN <<>>
    ELSE IF s[1].track = t THEN <<s[1]>> \o OnTrack(Tail(s), t)
    ELSE OnTrack(Tail(s), t)

NoExportIn == [clips |-> <<>>, outputPath |-> "", subtitleSrtPath |-> NoPath]

NoExportLocal ==
    [track_0_clips |-> <<>>, track_1_clips |-> <<>>, track_2_clips |-> <<>>,
     i |-> 0, temp_files |-> <<>>, overlay1_video |-> NoPath]

ExOk(text, out) == [op |-> "export", ok |-> TRUE, val |-> <<text, out>>, via |-> "none"]

ExErr(parts) == [op |-> "export", ok |-> FALSE, val |-> parts, via |-> "none"]

\* what one run of the transcoding engine can end in: the process cannot be
\* started, it exits with failure, it exits with success having written its
\* output, it exits with success without an output file
Outcomes == {"spawn_error", "exit_failure", "success", "success_no_file"}

\* the engine exits with success only if it could read all its inputs
EngineCan(fs, inputs, o) ==
    o \in {"success", "success_no_file"} => \A f \in inputs : PathExists(fs, f)

\* the file system after a run that was to write content to out
AfterEngine(fs, out, content, o) ==
    IF o = "success" THEN Put(fs, out, content) ELSE fs

Succeeded_Always(o) == TRUE

\* status.success() (lines 1013, 1132, 1228)
Succeeded(o) == o \in {"success", "success_no_file"}

NoClip == [file_path |-> "", start_time |-> -1, track |-> -1]

\* one invocation of the engine, as recorded in ex_log
Step(kind, clip, out, o) == [kind |-> kind, clip |-> clip, out |-> out, outcome |-> o]

ExportOff ==
    /\ ex_in = NoExportIn
    /\ ex_pc = "off"
    /\ ex_local = NoExportLocal
    /\ ex_files = ExportFs0
    /\ ex_log = <<>>
    /\ ex_created = {}
    /\ ex_ret = NoRet

\* no function is followed on its own
FnOff ==
    /\ fn_in = <<>>
    /\ fn_out = <<>>
    /\ fn_pc = "off"

-----------------------------------------------------------------------------
CaptureInit ==
    /\ session = NoSession
    /\ sessionLock = 0
    /\ ffmpeg_child = 0
    /\ childLock = 0
    /\ audio_state = NoAudioState
    /\ procs = {}
    /\ threads = {}
    /\ files = [f \in FileNames |-> NoFile]
    /\ clock = 0
    /\ next_pid = 1
    /\ next_tid = 1
    /\ pc = [c \in Callers |-> "idle"]
    /\ local = [c \in Callers |-> NoLocal]
    /\ ret = NoRet

NoOffsetOut == [offset |-> 0, filter |-> [kind |-> "none", ms |-> 0]]

Init ==
    /\ CaptureInit
    /\ off_in = [audio |-> None, video |-> None]
    /\ off_out = NoOffsetOut
    /\ off_pc = "off"
    /\ ExportOff
    /\ FnOff

\* a command returns: its guards are dropped, its locals are gone
Return(c, r) ==
    /\ ret' = r
    /\ pc' = [pc EXCEPT ![c] = "idle"]
    /\ local' = [local EXCEPT ![c] = NoLocal]

Goto(c, label) == pc' = [pc EXCEPT ![c] = label]

-----------------------------------------------------------------------------
(* start_screen_recording_process, screen_capture.rs:113-192 *)

AlreadyRecording_Never == FALSE

\* Line 116: if session.is_recording
AlreadyRecording == session.is_recording

StartRejected_SessionCleared(c, msg) ==
    /\ Return(c, Err("start", msg))
    /\ session' = NoSession
    /\ UNCHANGED <<sessionLock, ffmpeg_child, childLock, audio_state, procs,
                   threads, files, clock, next_pid, next_tid>>

\* Lines 117, 122 and 151-152: return Err(..) (the `?' of line 152
\* included) before anything was stored; the session guard is dropped
StartRejected(c, msg) ==
    /\ Return(c, Err("start", msg))
    /\ UNCHANGED <<session, sessionLock, ffmpeg_child, childLock, audio_state,
                   procs, threads, files, clock, next_pid, next_tid>>

\* Lines 114-154: take the session lock, reject a second session and a bad
\* path, read the video timestamp (line 149), spawn the video capture
\* process (line 151); `order' keeps the order of these two statements.
StartBegin(c, p) ==
    /\ pc[c] = "idle"
    /\ sessionLock = 0
    /\ IF AlreadyRecording
       THEN StartRejected(c, "Recording already in progress")
       ELSE IF ~EndsWithMp4(p)
       THEN StartRejected(c, "Output path must end with .mp4")
       ELSE \/ \* cmd.spawn() fails
               StartRejected(c, "Failed to start FFmpeg")
            \/ \* cmd.spawn() succeeds
               /\ next_pid <= MaxSessions
               /\ procs' = procs \cup
                      {[pid |-> next_pid, path |-> VideoOnlyPath(p),
                        st |-> "running", asked |-> FALSE]}
               /\ next_pid' = next_pid + 1
               /\ sessionLock' = c
               /\ local' = [local EXCEPT ![c] =
                      [NoLocal EXCEPT !.output_path = p, !.video_start = clock,
                                      !.pid = next_pid,
                                      !.order = <<"Instant::now", "spawn">>]]
               /\ Goto(c, "start_spawned")
               /\ ret' = NoRet
               /\ UNCHANGED <<session, ffmpeg_child, childLock, audio_state,
                              threads, files, clock, next_tid>>
    /\ UNCHANGED <<offsetVars, exportVars, fnVars>>

\* audio_capture.rs:20-210: start_audio_capture(output_path) under the
\* AUDIO_STATE lock; the device is opened later, inside the spawned thread.
\* The result is <<new audio state, new threads, Ok?>>.
start_audio_capture(path) ==
    IF audio_state.is_recording
    THEN <<audio_state, threads, FALSE>>
    ELSE <<[is_recording |-> TRUE, stop_signal |-> next_tid,
            recording_thread |-> next_tid],
           threads \cup {[tid |-> next_tid, path |-> path, st |-> "starting",
                          signalled |-> FALSE, opened |-> FALSE,
                          finalized |-> FALSE]},
           TRUE>>

\* Line 157: sleep(Duration::from_millis(100)), in microseconds
WarmUpMicros == 100000

\* Lines 156-168: warm-up sleep of 100 ms, audio timestamp, start of the
\* audio capture.
StartAudio(c) ==
    /\ pc[c] = "start_spawned"
    /\ \E j \in Jitter :
          /\ clock' = clock + WarmUpMicros + j
          /\ LET r == start_audio_capture(AudioPath(local[c].output_path))
             IN /\ audio_state' = r[1]
                /\ threads' = r[2]
                /\ next_tid' = IF r[3] THEN next_tid + 1 ELSE next_tid
                /\ local' = [local EXCEPT ![c].audio_start = clock',
                                          ![c].has_audio = r[3]]
    /\ Goto(c, "start_store")
    /\ UNCHANGED <<session, sessionLock, ffmpeg_child, childLock, procs,
                   files, next_pid, ret>>
    /\ UNCHANGED <<offsetVars, exportVars, fnVars>>

\* Lines 170-191: take the child lock, store the child, fill the session,
\* return; both guards are dropped on return.
StartStore(c) ==
    /\ pc[c] = "start_store"
    /\ childLock = 0
    /\ ffmpeg_child' = local[c].pid
    /\ session' = [is_recording |-> TRUE,
                   output_path |-> local[c].output_path,
                   start_time |-> clock,
                   ffmpeg_process |-> local[c].pid,
                   audio_start_time |->
                       IF local[c].has_audio THEN local[c].audio_start ELSE None,
                   video_start_time |-> local[c].video_start]
    /\ sessionLock' = 0
    /\ Return(c, Ok("start",
                    <<"Recording started", local[c].pid,
                      IF local[c].has_audio THEN "with WASAPI system audio"
                                            ELSE "video only (no audio)">>,
                    "none"))
    /\ UNCHANGED <<childLock, audio_state, procs, threads, files, clock,
                   next_pid, next_tid>>
    /\ UNCHANGED <<offsetVars, exportVars, fnVars>>

-----------------------------------------------------------------------------
(* get_recording_status, screen_capture.rs:437-440 *)

Status(c) ==
    /\ pc[c] = "idle"
    /\ sessionLock = 0
    /\ Return(c, Ok("status", <<session.is_recording>>, "none"))
    /\ UNCHANGED <<session, sessionLock, ffmpeg_child, childLock, audio_state,
                   procs, threads, files, clock, next_pid, next_tid>>
    /\ UNCHANGED <<offsetVars, exportVars, fnVars>>

-----------------------------------------------------------------------------
(* The video capture process (ffmpeg -f gdigrab ... <video-only path>) *)

\* the process writes its output file
ProcWrite(pid) ==
    /\ \E p \in Running :
          /\ p.pid = pid
          /\ files[p.path] # <<"video", pid>>
          /\ files' = [files EXCEPT ![p.path] = <<"video", pid>>]
    /\ UNCHANGED <<session, sessionLock, ffmpeg_child, childLock, audio_state,
                   procs, threads, clock, next_pid, next_tid, pc, local, ret>>
    /\ UNCHANGED <<offsetVars, exportVars, fnVars>>

\* the process exits: after 'q' on its stdin, or on its own (capture error)
ProcExit(pid) ==
    /\ \E p \in Running :
          /\ p.pid = pid
          /\ procs' = (procs \ {p}) \cup {[p EXCEPT !.st = "exited"]}
    /\ UNCHANGED <<session, sessionLock, ffmpeg_child, childLock, audio_state,
                   threads, files, clock, next_pid, next_tid, pc, local, ret>>
    /\ UNCHANGED <<offsetVars, exportVars, fnVars>>

-----------------------------------------------------------------------------
(* The audio capture thread, audio_capture.rs:34-203 *)

\* Lines 38-149: open the default output device, build and start the
\* stream, create the WAV file.  Without a device the thread returns, and no
\* file is created.
AudioThreadOpen(tid) ==
    /\ \E t \in threads :
          /\ t.tid = tid
          /\ t.st = "starting"
          /\ \/ /\ threads' = (threads \ {t}) \cup
                       {[t EXCEPT !.st = "running", !.opened = TRUE]}
                /\ files' = [files EXCEPT ![t.path] = <<"audio", tid>>]
             \/ /\ threads' = (threads \ {t}) \cup {[t EXCEPT !.st = "finished"]}
                /\ UNCHANGED files
    /\ UNCHANGED <<session, sessionLock, ffmpeg_child, childLock, audio_state,
                   procs, clock, next_pid, next_tid, pc, local, ret>>
    /\ UNCHANGED <<offsetVars, exportVars, fnVars>>

StopRequested_Never(t) == FALSE

\* Lines 156-160: stop_rx.try_recv() gives Ok or Disconnected
StopRequested(t) == t.signalled

\* Lines 154-202: the loop sees the stop signal (or the dropped sender) in
\* the iteration that follows it, finalizes the WAV file (line 195) and the
\* thread ends.
AudioThreadStop(tid) ==
    /\ \E t \in threads :
          /\ t.tid = tid
          /\ t.st = "running"
          /\ StopRequested(t)
          /\ threads' = (threads \ {t}) \cup
                 {[t EXCEPT !.st = "finished", !.finalized = TRUE]}
    /\ UNCHANGED <<session, sessionLock, ffmpeg_child, childLock, audio_state,
                   procs, files, clock, next_pid, next_tid, pc, local, ret>>
    /\ UNCHANGED <<offsetVars, exportVars, fnVars>>

-----------------------------------------------------------------------------
(* stop_screen_recording_process, screen_capture.rs:199-378 *)

\* for _ in 0..15 (line 249)
PollLimit == 15

MuxStages == {"stop_probe", "stop_mux", "stop_fallback", "stop_cleanup"}

NoRecording_Never == FALSE

\* Line 204: if !session.is_recording
NoRecording == ~session.is_recording

\* Lines 202-234: take the session lock, reject the call when no session is
\* active, compute the paths and the audio offset.
StopBegin(c) ==
    /\ pc[c] = "idle"
    /\ sessionLock = 0
    /\ IF NoRecording
       THEN /\ Return(c, Err("stop", "No recording in progress"))
            /\ UNCHANGED sessionLock
       ELSE /\ sessionLock' = c
            /\ local' = [local EXCEPT ![c] =
                   [NoLocal EXCEPT
                      !.output_path = session.output_path,
                      !.audio_offset = AudioOffset(session.audio_start_time,
                                                   session.video_start_time)]]
            /\ Goto(c, "stop_take")
            /\ ret' = NoRet
    /\ UNCHANGED <<session, ffmpeg_child, childLock, audio_state, procs,
                   threads, files, clock, next_pid, next_tid>>
    /\ UNCHANGED <<offsetVars, exportVars, fnVars>>

\* Lines 237-243: take the child lock (kept until the function returns),
\* take the child out of FFMPEG_CHILD and write 'q' to its stdin.
StopTakeChild(c) ==
    /\ pc[c] = "stop_take"
    /\ childLock = 0
    /\ childLock' = c
    /\ ffmpeg_child' = 0
    /\ IF ffmpeg_child # 0
       THEN /\ local' = [local EXCEPT ![c].pid = ffmpeg_child, ![c].polls = 0]
            /\ procs' = {IF p.pid = ffmpeg_child THEN [p EXCEPT !.asked = TRUE]
                         ELSE p : p \in procs}
            /\ Goto(c, "stop_poll")
       ELSE /\ Goto(c, "stop_audio")
            /\ UNCHANGED <<local, procs>>
    /\ UNCHANGED <<session, sessionLock, audio_state, threads, files, clock,
                   next_pid, next_tid, ret>>
    /\ UNCHANGED <<offsetVars, exportVars, fnVars>>

\* Lines 249-264: one iteration of the poll loop: try_wait, then either
\* break or sleep 200 ms; try_wait may also fail, which breaks too.
StopPoll(c) ==
    /\ pc[c] = "stop_poll"
    /\ IF local[c].polls < PollLimit
       THEN \/ /\ ProcOf(local[c].pid).st = "exited"
               /\ Goto(c, "stop_kill")
               /\ UNCHANGED local
            \/ /\ ProcOf(local[c].pid).st = "running"
               /\ local' = [local EXCEPT ![c].polls = @ + 1]
               /\ UNCHANGED pc
            \/ /\ Goto(c, "stop_kill")
               /\ UNCHANGED local
       ELSE /\ Goto(c, "stop_kill")
            /\ UNCHANGED local
    /\ UNCHANGED <<session, sessionLock, ffmpeg_child, childLock, audio_state,
                   procs, threads, files, clock, next_pid, next_tid, ret>>
    /\ UNCHANGED <<offsetVars, exportVars, fnVars>>

KillAndWait_Skipped(pid) == procs

\* Lines 267-268: child.kill(); child.wait(): the process is gone.
KillAndWait(pid) == {p \in procs : p.pid # pid}

StopKill_NoKill(c) ==
    /\ pc[c] = "stop_kill"
    /\ Goto(c, "stop_audio")
    /\ UNCHANGED <<session, sessionLock, ffmpeg_child, childLock, audio_state,
                   procs, threads, files, clock, next_pid, next_tid, local, ret>>
    /\ UNCHANGED <<offsetVars, exportVars, fnVars>>

\* Lines 266-268: kill and reap the child, whatever the poll loop saw.
StopKill(c) ==
    /\ pc[c] = "stop_kill"
    /\ procs' = KillAndWait(local[c].pid)
    /\ Goto(c, "stop_audio")
    /\ UNCHANGED <<session, sessionLock, ffmpeg_child, childLock, audio_state,
                   threads, files, clock, next_pid, next_tid, local, ret>>
    /\ UNCHANGED <<offsetVars, exportVars, fnVars>>

\* Lines 272-277 with audio_capture.rs:217-232: is_audio_capturing(), then
\* the first half of stop_audio_capture(): send the stop signal, take the
\* thread handle.
StopAudio(c) ==
    /\ pc[c] = "stop_audio"
    /\ IF audio_state.is_recording
       THEN /\ threads' = {IF t.tid = audio_state.stop_signal
                           THEN [t EXCEPT !.signalled = TRUE] ELSE t : t \in threads}
            /\ IF audio_state.recording_thread # 0
               THEN /\ audio_state' = [audio_state EXCEPT !.stop_signal = 0,
                                                          !.recording_thread = 0]
                    /\ local' = [local EXCEPT ![c].has_audio = TRUE,
                                              ![c].join = audio_state.recording_thread]
                    /\ Goto(c, "stop_join")
               ELSE /\ audio_state' = NoAudioState
                    /\ local' = [local EXCEPT ![c].has_audio = TRUE]
                    /\ Goto(c, "stop_clear")
       ELSE /\ local' = [local EXCEPT ![c].has_audio = FALSE]
            /\ Goto(c, "stop_clear")
            /\ UNCHANGED <<audio_state, threads>>
    /\ UNCHANGED <<session, sessionLock, ffmpeg_child, childLock, procs, files,
                   clock, next_pid, next_tid, ret>>
    /\ UNCHANGED <<offsetVars, exportVars, fnVars>>

\* audio_capture.rs:234-238: thread.join() returns once the thread has
\* ended; then is_recording is reset.
StopJoin(c) ==
    /\ pc[c] = "stop_join"
    /\ \E t \in threads :
          /\ t.tid = local[c].join
          /\ t.st = "finished"
          /\ threads' = threads \ {t}
          /\ local' = [local EXCEPT ![c].device_opened = t.opened]
    /\ audio_state' = [audio_state EXCEPT !.is_recording = FALSE]
    /\ Goto(c, "stop_clear")
    /\ UNCHANGED <<session, sessionLock, ffmpeg_child, childLock, procs, files,
                   clock, next_pid, next_tid, ret>>
    /\ UNCHANGED <<offsetVars, exportVars, fnVars>>

StopClear_FlagOnly(c) ==
    /\ pc[c] = "stop_clear"
    /\ session' = [session EXCEPT !.is_recording = FALSE]
    /\ sessionLock' = 0
    /\ Goto(c, "stop_check")
    /\ UNCHANGED <<ffmpeg_child, childLock, audio_state, procs, threads, files,
                   clock, next_pid, next_tid, local, ret>>
    /\ UNCHANGED <<offsetVars, exportVars, fnVars>>

\* Lines 279-287: clear the session, drop the session guard.
StopClear(c) ==
    /\ pc[c] = "stop_clear"
    /\ session' = NoSession
    /\ sessionLock' = 0
    /\ Goto(c, "stop_check")
    /\ UNCHANGED <<ffmpeg_child, childLock, audio_state, procs, threads, files,
                   clock, next_pid, next_tid, local, ret>>
    /\ UNCHANGED <<offsetVars, exportVars, fnVars>>

\* Line 377: Ok(output_path), on the mux path and on the fallback path alike
StopOk(out, via) == Ok("stop", <<out>>, via)

StopReturn_KeepsChildGuard(c, r) ==
    /\ Return(c, r)
    /\ UNCHANGED childLock

\* a stop returns: the child guard, still held, is dropped
StopReturn(c, r) ==
    /\ Return(c, r)
    /\ childLock' = 0

\* Lines 290-304 and 370-375: after the 1 s sleep, look for the audio file;
\* without audio, rename the video-only file to the output path.
StopCheckAudio(c) ==
    /\ pc[c] = "stop_check"
    /\ LET out == local[c].output_path
           vid == VideoOnlyPath(out)
           audio_exists == Exists(AudioPath(out))
       IN IF local[c].has_audio /\ audio_exists
          THEN /\ Goto(c, "stop_probe")
               /\ UNCHANGED <<files, childLock, local, ret>>
          ELSE IF Exists(vid)
          THEN /\ files' = [files EXCEPT ![out] = files[vid], ![vid] = NoFile]
               /\ StopReturn(c, StopOk(out, "video_only"))
          ELSE /\ StopReturn(c, Err("stop", "Failed to rename video file"))
               /\ UNCHANGED files
    /\ UNCHANGED <<session, sessionLock, ffmpeg_child, audio_state, procs,
                   threads, clock, next_pid, next_tid>>
    /\ UNCHANGED <<offsetVars, exportVars, fnVars>>

\* Lines 308-309 with 381-416: ffprobe on the video-only file, then on the
\* audio file; either may fail, and a missing file makes it fail.
StopProbe(c) ==
    /\ pc[c] = "stop_probe"
    /\ LET out == local[c].output_path
       IN \/ /\ StopReturn(c, Err("stop", "Failed to get video duration"))
          \/ /\ Exists(VideoOnlyPath(out))
             /\ StopReturn(c, Err("stop", "Failed to get audio duration"))
          \/ /\ Exists(VideoOnlyPath(out))
             /\ Exists(AudioPath(out))
             /\ Goto(c, "stop_mux")
             /\ UNCHANGED <<childLock, local, ret>>
    /\ UNCHANGED <<session, sessionLock, ffmpeg_child, audio_state, procs,
                   threads, files, clock, next_pid, next_tid>>
    /\ UNCHANGED <<offsetVars, exportVars, fnVars>>

\* Lines 313-365: build the mux command with the audio filter and run it:
\* it cannot be started, it exits with failure, or it writes the output.
StopMux(c) ==
    /\ pc[c] = "stop_mux"
    /\ LET out == local[c].output_path
           vid == VideoOnlyPath(out)
           flt == AudioFilter(local[c].audio_offset)
       IN \/ /\ StopReturn(c, Err("stop", "Failed to mux audio and video"))
             /\ UNCHANGED files
          \/ /\ local' = [local EXCEPT ![c].filter = flt]
             /\ Goto(c, "stop_fallback")
             /\ UNCHANGED <<files, childLock, ret>>
          \/ /\ Exists(vid)
             /\ Exists(AudioPath(out))
             /\ files' = [files EXCEPT ![out] = <<"muxed", files[vid][2]>>]
             /\ local' = [local EXCEPT ![c].filter = flt]
             /\ Goto(c, "stop_cleanup")
             /\ UNCHANGED <<childLock, ret>>
    /\ UNCHANGED <<session, sessionLock, ffmpeg_child, audio_state, procs,
                   threads, clock, next_pid, next_tid>>
    /\ UNCHANGED <<offsetVars, exportVars, fnVars>>

StopFallback_NoCopy(c) ==
    /\ pc[c] = "stop_fallback"
    /\ local' = [local EXCEPT ![c].filter = [kind |-> "fallback", ms |-> 0]]
    /\ Goto(c, "stop_cleanup")
    /\ UNCHANGED <<session, sessionLock, ffmpeg_child, childLock, audio_state,
                   procs, threads, files, clock, next_pid, next_tid, ret>>
    /\ UNCHANGED <<offsetVars, exportVars, fnVars>>

\* Lines 357-362: the mux failed: copy the video-only file to the output
\* path; the copy may fail.
StopFallback(c) ==
    /\ pc[c] = "stop_fallback"
    /\ LET out == local[c].output_path
           vid == VideoOnlyPath(out)
       IN \/ /\ StopReturn(c, Err("stop", "Failed to copy video file"))
             /\ UNCHANGED files
          \/ /\ Exists(vid)
             /\ files' = [files EXCEPT ![out] = files[vid]]
             /\ local' = [local EXCEPT ![c].filter = [kind |-> "fallback", ms |-> 0]]
             /\ Goto(c, "stop_cleanup")
             /\ UNCHANGED <<childLock, ret>>
    /\ UNCHANGED <<session, sessionLock, ffmpeg_child, audio_state, procs,
                   threads, clock, next_pid, next_tid>>
    /\ UNCHANGED <<offsetVars, exportVars, fnVars>>

\* Lines 367-377: remove both temporary files, return the output path.
StopCleanup(c) ==
    /\ pc[c] = "stop_cleanup"
    /\ LET out == local[c].output_path
       IN /\ files' = [files EXCEPT ![VideoOnlyPath(out)] = NoFile,
                                    ![AudioPath(out)] = NoFile]
          /\ StopReturn(c, StopOk(out, IF local[c].filter.kind = "fallback"
                                        THEN "fallback" ELSE "muxed"))
    /\ UNCHANGED <<session, sessionLock, ffmpeg_child, audio_state, procs,
                   threads, clock, next_pid, next_tid>>
    /\ UNCHANGED <<offsetVars, exportVars, fnVars>>

-----------------------------------------------------------------------------
Next ==
    \/ \E c \in Callers, p \in OutputPaths : StartBegin(c, p)
    \/ \E c \in Callers : StartAudio(c)
    \/ \E c \in Callers : StartStore(c)
    \/ \E c \in Callers : Status(c)
    \/ \E c \in Callers : StopBegin(c)
    \/ \E c \in Callers : StopTakeChild(c)
    \/ \E c \in Callers : StopPoll(c)
    \/ \E c \in Callers : StopKill(c)
    \/ \E c \in Callers : StopAudio(c)
    \/ \E c \in Callers : StopJoin(c)
    \/ \E c \in Callers : StopClear(c)
    \/ \E c \in Callers : StopCheckAudio(c)
    \/ \E c \in Callers : StopProbe(c)
    \/ \E c \in Callers : StopMux(c)
    \/ \E c \in Callers : StopFallback(c)
    \/ \E c \in Callers : StopCleanup(c)
    \/ \E pid \in 1..MaxSessions : ProcWrite(pid)
    \/ \E pid \in 1..MaxSessions : ProcExit(pid)
    \/ \E tid \in 1..MaxSessions : AudioThreadOpen(tid)
    \/ \E tid \in 1..MaxSessions : AudioThreadStop(tid)

Spec == Init /\ [][Next]_vars

\* The commands issued one after the other, as by a single caller thread:
\* no command begins while another one is in progress.
Alone(c) == \A d \in Callers \ {c} : pc[d] = "idle"

SeqNext ==
    \/ \E c \in Callers, p \in OutputPaths : Alone(c) /\ StartBegin(c, p)
    \/ \E c \in Callers : Alone(c) /\ StartAudio(c)
    \/ \E c \in Callers : Alone(c) /\ StartStore(c)
    \/ \E c \in Callers : Alone(c) /\ Status(c)
    \/ \E c \in Callers : Alone(c) /\ StopBegin(c)
    \/ \E c \in Callers : Alone(c) /\ StopTakeChild(c)
    \/ \E c \in Callers : Alone(c) /\ StopPoll(c)
    \/ \E c \in Callers : Alone(c) /\ StopKill(c)
    \/ \E c \in Callers : Alone(c) /\ StopAudio(c)
    \/ \E c \in Callers : Alone(c) /\ StopJoin(c)
    \/ \E c \in Callers : Alone(c) /\ StopClear(c)
    \/ \E c \in Callers : Alone(c) /\ StopCheckAudio(c)
    \/ \E c \in Callers : Alone(c) /\ StopProbe(c)
    \/ \E c \in Callers : Alone(c) /\ StopMux(c)
    \/ \E c \in Callers : Alone(c) /\ StopFallback(c)
    \/ \E c \in Callers : Alone(c) /\ StopCleanup(c)
    \/ \E pid \in 1..MaxSessions : ProcWrite(pid)
    \/ \E pid \in 1..MaxSessions : ProcExit(pid)
    \/ \E tid \in 1..MaxSessions : AudioThreadOpen(tid)
    \/ \E tid \in 1..MaxSessions : AudioThreadStop(tid)

SeqSpec == Init /\ [][SeqNext]_vars

-----------------------------------------------------------------------------
(* The offset computation of stop (lines 212-226) and the choice of the    *)
(* audio filter (lines 323-337) on their own, for every pair of timestamps *)
(* of Instants, an absent timestamp included.                              *)

OffsetInputs == [audio : Instants \cup {None}, video : Instants \cup {None}]

OffsetInit ==
    /\ CaptureInit
    /\ off_in = [audio |-> None, video |-> None]
    /\ off_out = NoOffsetOut
    /\ off_pc = "idle"
    /\ ExportOff
    /\ FnOff

OffsetApply ==
    /\ off_pc = "drawn"
    /\ LET o == AudioOffset(off_in.audio, off_in.video)
       IN off_out' = [offset |-> o, filter |-> AudioFilter(o)]
    /\ off_pc' = "applied"
    /\ UNCHANGED off_in
    /\ UNCHANGED <<captureVars, exportVars, fnVars>>

OffsetDraw ==
    /\ off_pc \in {"idle", "applied"}
    /\ off_in' \in OffsetInputs
    /\ off_out' = NoOffsetOut
    /\ off_pc' = "drawn"
    /\ UNCHANGED <<captureVars, exportVars, fnVars>>

OffsetNext == OffsetApply \/ OffsetDraw

OffsetSpec == OffsetInit /\ [][OffsetNext]_vars

-----------------------------------------------------------------------------
(* export_video and export_video_blocking, lib.rs:541-613 and 875-1662.    *)
(* One export attempt at a time (the command awaits its blocking task).    *)
(* An attempt is cut at every invocation of the transcoding engine, and is *)
(* followed from a temporary directory that holds no file of an earlier    *)
(* attempt until it returns.                                               *)

ExportInit ==
    /\ CaptureInit
    /\ off_in = [audio |-> None, video |-> None]
    /\ off_out = NoOffsetOut
    /\ off_pc = "off"
    /\ ex_in = NoExportIn
    /\ ex_pc = "idle"
    /\ ex_local = NoExportLocal
    /\ ex_files = ExportFs0
    /\ ex_log = <<>>
    /\ ex_created = {}
    /\ ex_ret = NoRet
    /\ FnOff

\* an export returns
ExReturn(r) ==
    /\ ex_ret' = r
    /\ ex_pc' = "done"

\* Lines 541-613: reject an empty clip list and an unsupported extension,
\* sort the clips by start_time and hand them to the blocking task.
ExportBegin(clips, out, srt) ==
    /\ ex_pc = "idle"
    /\ ex_in' = [clips |-> clips, outputPath |-> out, subtitleSrtPath |-> srt]
    /\ ex_files' = ExportFs0
    /\ ex_log' = <<>>
    /\ ex_created' = {}
    /\ IF clips = <<>>
       THEN /\ ExReturn(ExErr(<<"No clips to export">>))
            /\ ex_local' = NoExportLocal
       ELSE IF ~SupportedExtension(out)
       THEN /\ ExReturn(ExErr(<<"Output path must end with .mp4 or .mov, got", out>>))
            /\ ex_local' = NoExportLocal
       ELSE /\ LET sorted_clips == SortByStartTime(clips)
               IN ex_local' = [NoExportLocal EXCEPT
                      !.track_0_clips = OnTrack(sorted_clips, 0),
                      !.track_1_clips = OnTrack(sorted_clips, 1),
                      !.track_2_clips = OnTrack(sorted_clips, 2)]
            /\ ex_pc' = "dispatch"
            /\ ex_ret' = NoRet
    /\ UNCHANGED <<captureVars, offsetVars, fnVars>>

\* the files written between two states of the file system
Written(before, after) == DOMAIN after \ DOMAIN before

SingleClip_Never(track_0_clips) == FALSE

\* Line 904: if track_0_clips.len() == 1
SingleClip(track_0_clips) == Len(track_0_clips) = 1

\* Lines 893-904 and 1289-1293: choose the strategy from the
\* shape of the timeline.
ExportDispatch ==
    /\ ex_pc = "dispatch"
    /\ LET has_overlays == ex_local.track_1_clips # <<>> \/ ex_local.track_2_clips # <<>>
           sorted0 == SortByStartTime(ex_local.track_0_clips)
       IN IF ~has_overlays
          THEN /\ ex_local' = [ex_local EXCEPT !.track_0_clips = sorted0]
               /\ IF SingleClip(sorted0)
                  THEN ex_pc' = "single"
                  ELSE ex_pc' = "trim"
               /\ UNCHANGED ex_ret
          ELSE IF sorted0 = <<>>
          THEN /\ ExReturn(ExErr(<<"Track 0 (Main Video) must have at least one clip">>))
               /\ UNCHANGED ex_local
          ELSE /\ ex_local' = [ex_local EXCEPT !.track_0_clips = sorted0]
               /\ ex_pc' = "base_trim"
               /\ UNCHANGED ex_ret
    /\ UNCHANGED <<ex_in, ex_files, ex_log, ex_created>>
    /\ UNCHANGED <<captureVars, offsetVars, fnVars>>

\* the staged subtitle file, where subtitles are asked for
StagedSubtitles(srt) == IF srt = NoPath THEN {} ELSE {"./temp_subtitles.srt"}

\* Lines 953-980, 1162-1189 and 1518-1541: the subtitle file is looked for,
\* read and copied to ./temp_subtitles.srt.  The results that are possible:
\* an error, or the file system with the copy.
StageSubtitles(fs, srt) ==
    IF srt = NoPath THEN {[err |-> <<>>, fs |-> fs]}
    ELSE IF ~PathExists(fs, srt)
    THEN {[err |-> <<"Subtitle file not found", srt>>, fs |-> fs]}
    ELSE {[err |-> <<"Failed to read SRT", "io">>, fs |-> fs],
          [err |-> <<"Failed to copy SRT", "io">>, fs |-> fs],
          [err |-> <<>>, fs |-> Put(fs, "./temp_subtitles.srt", fs[srt])]}

\* Lines 1013-1020 and 1052-1062: the file is looked for after the engine
\* reported success
OutputChecked(fs, out, text) ==
    IF PathExists(fs, out) THEN ExOk(text, out)
    ELSE ExErr(<<"FFmpeg completed but output file was not created">>)

\* Lines 904-1067: single clip on track 0 and no overlay: check that the
\* input exists, stage the subtitles, run the one transcode step and check
\* its result.
ExportSingle ==
    /\ ex_pc = "single"
    /\ LET clip == ex_local.track_0_clips[1]
           out == ex_in.outputPath
           srt == ex_in.subtitleSrtPath
       IN IF ~PathExists(ex_files, clip.file_path)
          THEN /\ ExReturn(ExErr(<<"Input video file not found", clip.file_path>>))
               /\ UNCHANGED <<ex_files, ex_log, ex_created>>
          ELSE \E r \in StageSubtitles(ex_files, srt) :
                  IF r.err # <<>>
                  THEN /\ ExReturn(ExErr(r.err))
                       /\ ex_files' = r.fs
                       /\ UNCHANGED <<ex_log, ex_created>>
                  ELSE \E o \in Outcomes :
                          /\ EngineCan(r.fs, {clip.file_path} \cup StagedSubtitles(srt), o)
                          /\ ex_log' = Append(ex_log, Step("transcode", clip, out, o))
                          /\ ex_files' = AfterEngine(r.fs, out, <<"transcode">>, o)
                          /\ ex_created' = ex_created \cup Written(ex_files, ex_files')
                          /\ IF o = "spawn_error"
                             THEN ExReturn(ExErr(<<"Failed to execute FFmpeg", "io">>))
                             ELSE IF o = "exit_failure"
                             THEN IF srt = NoPath
                                  THEN ExReturn(ExErr(<<"FFmpeg failed with exit code", "code">>))
                                  ELSE ExReturn(ExErr(<<"FFmpeg failed", "stderr">>))
                             ELSE ExReturn(OutputChecked(ex_files', out,
                                                         "Video exported successfully to"))
    /\ UNCHANGED <<ex_in, ex_local>>
    /\ UNCHANGED <<captureVars, offsetVars, fnVars>>

TempName_Same(prefix, i) == prefix \o ".mp4"

\* temp_dir.join(format!("clip_{}.mp4", i)) and
\* temp_dir.join(format!("track0_clip_{}.mp4", i)) (lines 1077, 1303)
TempName(prefix, i) == prefix \o ToString(i) \o ".mp4"

\* Lines 1076-1135: one iteration of the trim loop of the concatenation
\* strategy: the temporary file is recorded, the clip is trimmed into it.
ExportTrim ==
    /\ ex_pc = "trim"
    /\ LET i == ex_local.i
           clip == ex_local.track_0_clips[i + 1]
           temp_file == TempName("clip_", i)
       IN \E o \in Outcomes :
             /\ EngineCan(ex_files, {clip.file_path}, o)
             /\ ex_log' = Append(ex_log, Step("trim", clip, temp_file, o))
             /\ ex_files' = AfterEngine(ex_files, temp_file, <<"clip", clip>>, o)
             /\ ex_created' = ex_created \cup Written(ex_files, ex_files')
             /\ IF o = "spawn_error"
                THEN /\ ExReturn(ExErr(<<"Failed to execute FFmpeg for clip",
                                         ToString(i), "io">>))
                     /\ ex_local' = [ex_local EXCEPT
                            !.temp_files = Append(@, temp_file)]
                ELSE IF ~Succeeded(o)
                THEN /\ ExReturn(ExErr(<<"Failed to trim clip", ToString(i),
                                         "exit code">>))
                     /\ ex_local' = [ex_local EXCEPT
                            !.temp_files = Append(@, temp_file)]
                ELSE /\ ex_local' = [ex_local EXCEPT
                            !.temp_files = Append(@, temp_file), !.i = i + 1]
                     /\ ex_pc' = IF i + 1 = Len(ex_local.track_0_clips)
                                 THEN "concat" ELSE "trim"
                     /\ UNCHANGED ex_ret
    /\ UNCHANGED ex_in
    /\ UNCHANGED <<captureVars, offsetVars, fnVars>>

\* the loops of remove_file over the temporary files (lines 1231-1234,
\* 1238-1241, 1256-1259, 1266-1269, 1592-1599, 1604-1611, 1622-1629 and
\* 1636-1643)
ExportCleanup(fs, names) == Remove(fs, names)

\* Lines 1137-1277: write the concatenation list, stage the subtitles, run
\* the concatenation step, remove the temporary files.
ExportConcat ==
    /\ ex_pc = "concat"
    /\ LET out == ex_in.outputPath
           srt == ex_in.subtitleSrtPath
           temp_files == ex_local.temp_files
           concat_file == "concat_list.txt"
           listed == Put(ex_files, concat_file, <<"list", temp_files>>)
           temps == Range(temp_files) \cup {concat_file}
       IN \/ /\ ExReturn(ExErr(<<"Failed to write concat file", "io">>))
             /\ UNCHANGED <<ex_files, ex_log, ex_created>>
          \/ \E r \in StageSubtitles(listed, srt) :
                IF r.err # <<>>
                THEN /\ ExReturn(ExErr(r.err))
                     /\ ex_files' = r.fs
                     /\ ex_created' = ex_created \cup Written(ex_files, r.fs)
                     /\ UNCHANGED ex_log
                ELSE \E o \in Outcomes :
                        /\ EngineCan(r.fs, temps \cup StagedSubtitles(srt), o)
                        /\ ex_log' = Append(ex_log, Step("concat", NoClip, out, o))
                        /\ ex_created' = ex_created \cup Written(ex_files,
                               AfterEngine(r.fs, out, <<"concat", temp_files>>, o))
                        /\ IF o = "spawn_error"
                           THEN /\ ExReturn(ExErr(<<"Failed to execute FFmpeg concat", "io">>))
                                /\ ex_files' = r.fs
                           ELSE /\ ex_files' = ExportCleanup(
                                       AfterEngine(r.fs, out, <<"concat", temp_files>>, o),
                                       temps)
                                /\ IF o = "exit_failure"
                                   THEN IF srt = NoPath
                                        THEN ExReturn(ExErr(<<"Concatenation failed with exit code", "code">>))
                                        ELSE ExReturn(ExErr(<<"FFmpeg concat failed", "stderr">>))
                                   ELSE ExReturn(ExOk("Video exported successfully to", out))
    /\ UNCHANGED <<ex_in, ex_local>>
    /\ UNCHANGED <<captureVars, offsetVars, fnVars>>

\* Lines 1301-1361: one iteration of the trim loop of the composite
\* strategy; here the output file of the step is looked for.
ExportBaseTrim ==
    /\ ex_pc = "base_trim"
    /\ LET i == ex_local.i
           clip == ex_local.track_0_clips[i + 1]
           temp_file == TempName("track0_clip_", i)
       IN \E o \in Outcomes :
             /\ EngineCan(ex_files, {clip.file_path}, o)
             /\ ex_log' = Append(ex_log, Step("base_trim", clip, temp_file, o))
             /\ ex_files' = AfterEngine(ex_files, temp_file, <<"clip", clip>>, o)
             /\ ex_created' = ex_created \cup Written(ex_files, ex_files')
             /\ IF o = "success"
                THEN /\ ex_local' = [ex_local EXCEPT
                            !.temp_files = Append(@, temp_file), !.i = i + 1]
                     /\ ex_pc' = IF i + 1 = Len(ex_local.track_0_clips)
                                 THEN "base" ELSE "base_trim"
                     /\ UNCHANGED ex_ret
                ELSE /\ ex_local' = [ex_local EXCEPT
                            !.temp_files = Append(@, temp_file)]
                     /\ IF o = "spawn_error"
                        THEN ExReturn(ExErr(<<"Failed to execute FFmpeg for Track 0 clip",
                                              ToString(i), "io">>))
                        ELSE IF o = "exit_failure"
                        THEN ExReturn(ExErr(<<"Failed to process Track 0 clip",
                                              ToString(i), "FFmpeg error", "stderr">>))
                        ELSE ExReturn(ExErr(<<"Track 0 clip output file was not created",
                                              ToString(i)>>))
    /\ UNCHANGED ex_in
    /\ UNCHANGED <<captureVars, offsetVars, fnVars>>

\* Lines 1363-1421: write the concatenation list of track 0 and build the
\* base video; on failure only the clip files are removed.
ExportBase ==
    /\ ex_pc = "base"
    /\ LET temp_files == ex_local.temp_files
           track0_concat == "track0_concat.txt"
           base_video == "base_track0.mp4"
           listed == Put(ex_files, track0_concat, <<"list", temp_files>>)
       IN \/ /\ ExReturn(ExErr(<<"Failed to write concat file", "io">>))
             /\ UNCHANGED <<ex_files, ex_log, ex_created>>
          \/ \E o \in Outcomes :
                /\ EngineCan(listed, Range(temp_files) \cup {track0_concat}, o)
                /\ ex_log' = Append(ex_log, Step("base", NoClip, base_video, o))
                /\ ex_created' = ex_created \cup Written(ex_files,
                       AfterEngine(listed, base_video, <<"base", temp_files>>, o))
                /\ IF o = "spawn_error"
                   THEN /\ ExReturn(ExErr(<<"Failed to execute FFmpeg for base video", "io">>))
                        /\ ex_files' = listed
                   ELSE IF o = "exit_failure"
                   THEN /\ ExReturn(ExErr(<<"Failed to create base video from Track 0",
                                            "FFmpeg error", "stderr">>))
                        /\ ex_files' = ExportCleanup(listed, Range(temp_files))
                   ELSE IF o = "success_no_file"
                   THEN /\ ExReturn(ExErr(<<"Base video file was not created">>))
                        /\ ex_files' = ExportCleanup(listed, Range(temp_files))
                   ELSE /\ ex_files' = Put(listed, base_video, <<"base", temp_files>>)
                        /\ ex_pc' = IF Len(ex_local.track_1_clips) = 1
                                    THEN "overlay" ELSE "final"
                        /\ UNCHANGED ex_ret
    /\ UNCHANGED <<ex_in, ex_local>>
    /\ UNCHANGED <<captureVars, offsetVars, fnVars>>

\* Lines 1423-1476: the one clip of track 1 is built into an overlay layer.
ExportOverlay ==
    /\ ex_pc = "overlay"
    /\ LET clip == ex_local.track_1_clips[1]
           overlay_temp == "overlay1.mp4"
       IN \E o \in Outcomes :
             /\ EngineCan(ex_files, {clip.file_path}, o)
             /\ ex_log' = Append(ex_log, Step("overlay", clip, overlay_temp, o))
             /\ ex_files' = AfterEngine(ex_files, overlay_temp, <<"overlay", clip>>, o)
             /\ ex_created' = ex_created \cup Written(ex_files, ex_files')
             /\ IF o = "spawn_error"
                THEN /\ ExReturn(ExErr(<<"Failed to execute FFmpeg for overlay 1", "io">>))
                     /\ UNCHANGED ex_local
                ELSE IF o = "success"
                THEN /\ ex_local' = [ex_local EXCEPT !.overlay1_video = overlay_temp]
                     /\ ex_pc' = "final"
                     /\ UNCHANGED ex_ret
                ELSE /\ ExReturn(ExErr(<<"Failed to create overlay 1 video file",
                                         "FFmpeg error", "stderr">>))
                     /\ UNCHANGED ex_local
    /\ UNCHANGED ex_in
    /\ UNCHANGED <<captureVars, offsetVars, fnVars>>

\* Lines 1478-1661: stage the subtitles, run the final composite step,
\* remove the temporary files.
ExportFinal ==
    /\ ex_pc = "final"
    /\ LET out == ex_in.outputPath
           srt == ex_in.subtitleSrtPath
           base_video == "base_track0.mp4"
           overlay1 == IF ex_local.overlay1_video = NoPath THEN {}
                       ELSE {ex_local.overlay1_video}
           temps == Range(ex_local.temp_files)
                    \cup {"track0_concat.txt", base_video} \cup overlay1
       IN \E r \in StageSubtitles(ex_files, srt) :
             IF r.err # <<>>
             THEN /\ ExReturn(ExErr(r.err))
                  /\ ex_files' = r.fs
                  /\ UNCHANGED <<ex_log, ex_created>>
             ELSE \E o \in Outcomes :
                     /\ EngineCan(r.fs, {base_video} \cup overlay1
                                        \cup StagedSubtitles(srt), o)
                     /\ ex_log' = Append(ex_log, Step("final", NoClip, out, o))
                     /\ ex_created' = ex_created \cup Written(ex_files,
                            AfterEngine(r.fs, out, <<"composite">>, o))
                     /\ IF o = "spawn_error"
                        THEN /\ ExReturn(ExErr(<<"Failed to composite video", "io">>))
                             /\ ex_files' = r.fs
                        ELSE /\ ex_files' = ExportCleanup(
                                    AfterEngine(r.fs, out, <<"composite">>, o), temps)
                             /\ IF o = "exit_failure"
                                THEN IF srt = NoPath
                                     THEN ExReturn(ExErr(<<"Failed to composite multi-track video">>))
                                     ELSE ExReturn(ExErr(<<"FFmpeg multi-track failed", "stderr">>))
                                ELSE ExReturn(ExOk("Multi-track video exported successfully to", out))
    /\ UNCHANGED <<ex_in, ex_local>>
    /\ UNCHANGED <<captureVars, offsetVars, fnVars>>

ExportNext ==
    \/ /\ ex_pc = "idle"
       /\ \E clips \in Timelines, out \in ExportPaths, srt \in SubtitlePaths :
             ExportBegin(clips, out, srt)
    \/ ExportDispatch
    \/ ExportSingle
    \/ ExportTrim
    \/ ExportConcat
    \/ ExportBaseTrim
    \/ ExportBase
    \/ ExportOverlay
    \/ ExportFinal

ExportSpec == ExportInit /\ [][ExportNext]_vars

-----------------------------------------------------------------------------
(* Claims C1..C10: the capture session *)

BusyError == Err("start", "Recording already in progress")

NotActiveError == Err("stop", "No recording in progress")

\* C1: a start that finds the session active returns the busy error and
\* changes nothing: no process is spawned, no audio capture is started, the
\* session, the stored child and the files stay as they are.
C1_StartWhileActiveRejected ==
    [][\A c \in Callers, p \in OutputPaths :
          (StartBegin(c, p) /\ session.is_recording) =>
              /\ ret' = BusyError
              /\ pc'[c] = "idle"
              /\ UNCHANGED <<session, ffmpeg_child, audio_state, procs,
                             threads, files, next_pid, next_tid, clock>>]_vars

\* C1 happens: the busy error was returned while a session with its one
\* process is active
C1_Witness ==
    /\ ret = BusyError
    /\ session.is_recording
    /\ Cardinality(procs) = 1

\* C2: a stop that finds the session idle returns the not-active error and
\* does nothing else: no process is signalled or killed, the audio capture is
\* not stopped, nothing is muxed, no file is renamed or deleted.
C2_StopWhileIdleRejected ==
    [][\A c \in Callers :
          (StopBegin(c) /\ ~session.is_recording) =>
              /\ ret' = NotActiveError
              /\ pc'[c] = "idle"
              /\ UNCHANGED <<session, ffmpeg_child, audio_state, procs,
                             threads, files>>]_vars

\* C2 happens: the not-active error was returned with the session idle
C2_Witness ==
    /\ ret = NotActiveError
    /\ ~session.is_recording
    /\ \A c \in Callers : pc[c] = "idle"

StartStages == {"start_spawned", "start_store"}

\* the sessions that exist: the one recorded as active and those a start is
\* building
SessionsInBeing ==
    {c \in Callers : pc[c] \in StartStages}
    \cup (IF session.is_recording THEN {0} ELSE {})

\* C3: at most one capture session is active and at most one video capture
\* process is alive, in every reachable state.
C3_AtMostOneSession ==
    /\ Cardinality(SessionsInBeing) <= 1
    /\ Cardinality(Running) <= 1

\* C3 happens: a second session, started after the first was stopped, is
\* active with its process alive
C3_Witness ==
    /\ session.is_recording
    /\ session.ffmpeg_process = 2
    /\ Cardinality(Running) = 1

\* the audio thread of the active session ended without a device
DeviceUnavailable ==
    \E t \in threads :
        /\ t.tid = audio_state.recording_thread
        /\ t.st = "finished"
        /\ ~t.opened

\* C4: with the audio device unavailable at session start, the start
\* succeeds and the session is active, and the stop of that session never
\* enters the mux stage: its output is the video-only file.
C4_VideoOnlyWithoutDevice ==
    /\ (DeviceUnavailable /\ sessionLock = 0) => session.is_recording
    /\ \A c \in Callers :
          (pc[c] \in MuxStages \cup {"stop_check"} /\ local[c].join # 0
           /\ ~local[c].device_opened)
          => pc[c] = "stop_check"

BothPresent == off_in.audio # None /\ off_in.video # None

\* C5 as stated: the offset is video-start minus audio-start; a positive
\* offset is trimmed from the audio head, a negative one is padded there, by
\* exactly |offset|.
C5_OffsetTrimOrPadExact ==
    (off_pc = "applied" /\ BothPresent) =>
        /\ off_out.offset = off_in.video - off_in.audio
        /\ off_out.offset > 0 =>
              /\ off_out.filter.kind = "atrim"
              /\ off_out.filter.ms * 1000 = off_out.offset
        /\ off_out.offset < 0 =>
              /\ off_out.filter.kind = "adelay"
              /\ off_out.filter.ms * 1000 = -off_out.offset

\* C5 amended: the offset is video-start minus audio-start; above +1 ms it is
\* trimmed from the audio head rounded to the millisecond, below -1 ms it is
\* padded there truncated to the millisecond, and within 1 ms of zero the
\* audio head is left alone.
C5_OffsetTrimOrPadMillis ==
    (off_pc = "applied" /\ BothPresent) =>
        /\ off_out.offset = off_in.video - off_in.audio
        /\ off_out.offset > 1000 =>
              /\ off_out.filter.kind = "atrim"
              /\ Abs(off_out.filter.ms * 1000 - off_out.offset) <= 500
        /\ off_out.offset < -1000 =>
              /\ off_out.filter.kind = "adelay"
              /\ off_out.filter.ms * 1000 <= -off_out.offset
              /\ -off_out.offset < off_out.filter.ms * 1000 + 1000
        /\ Abs(off_out.offset) <= 1000 => off_out.filter.kind = "apad"

\* C5 happens: a negative offset that is no whole number of milliseconds was
\* padded
C5_Witness ==
    /\ off_pc = "applied"
    /\ BothPresent
    /\ off_out.filter.kind = "adelay"
    /\ off_out.filter.ms * 1000 # -off_out.offset

\* C6 as stated: audio started D after video gives offset D and a trim of D;
\* video started D after audio gives offset -D and a pad of D.
C6_LaterAudioTrimmed ==
    (off_pc = "applied" /\ BothPresent) =>
        /\ LET D == off_in.audio - off_in.video
           IN D > 0 =>
                 /\ off_out.offset = D
                 /\ off_out.filter.kind = "atrim"
                 /\ off_out.filter.ms * 1000 = D
        /\ LET D == off_in.video - off_in.audio
           IN D > 0 =>
                 /\ off_out.offset = -D
                 /\ off_out.filter.kind = "adelay"
                 /\ off_out.filter.ms * 1000 = D

\* C6 amended: audio started D after video (D above 1 ms) gives offset -D and
\* a pad of D truncated to the millisecond; video started D after audio gives
\* offset +D and a trim of D rounded to the millisecond.
C6_LaterAudioPadded ==
    (off_pc = "applied" /\ BothPresent) =>
        /\ LET D == off_in.audio - off_in.video
           IN D > 1000 =>
                 /\ off_out.offset = -D
                 /\ off_out.filter = [kind |-> "adelay", ms |-> D \div 1000]
        /\ LET D == off_in.video - off_in.audio
           IN D > 1000 =>
                 /\ off_out.offset = D
                 /\ off_out.filter.kind = "atrim"
                 /\ off_out.filter.ms \in {D \div 1000, D \div 1000 + 1}
                 /\ Abs(off_out.filter.ms * 1000 - D) <= 500

\* C6 happens: the audio started more than 1 ms after the video and the
\* filter was chosen
C6_Witness ==
    /\ off_pc = "applied"
    /\ BothPresent
    /\ off_in.audio > off_in.video + 1000
    /\ off_out.filter.kind = "adelay"

CopyError == Err("stop", "Failed to copy video file")

\* C7 as stated: once the mux step has exited with failure, stop goes on to
\* make the video-only file the output and returns the output path as Ok.
C7_MuxFailureNeverFails ==
    [][\A c \in Callers :
          /\ (pc[c] = "stop_fallback" /\ pc'[c] # "stop_fallback") =>
                /\ pc'[c] = "stop_cleanup"
                /\ files'[local[c].output_path]
                       = files[VideoOnlyPath(local[c].output_path)]
          /\ (pc[c] = "stop_cleanup" /\ local[c].filter.kind = "fallback"
              /\ pc'[c] # "stop_cleanup") =>
                /\ ret'.ok
                /\ ret'.val = <<local[c].output_path>>]_vars

\* C7 amended: once the mux step has exited with failure, stop copies the
\* video-only file to the output path; if the copy succeeds, the output is
\* the video-only content and stop returns the output path as Ok; if the
\* copy fails, stop returns the copy error and writes nothing.
C7_MuxFailureFallsBack ==
    [][\A c \in Callers :
          /\ (pc[c] = "stop_fallback" /\ pc'[c] # "stop_fallback") =>
                \/ /\ pc'[c] = "stop_cleanup"
                   /\ Exists(VideoOnlyPath(local[c].output_path))
                   /\ files'[local[c].output_path]
                          = files[VideoOnlyPath(local[c].output_path)]
                \/ /\ pc'[c] = "idle"
                   /\ ret' = CopyError
                   /\ UNCHANGED files
          /\ (pc[c] = "stop_cleanup" /\ local[c].filter.kind = "fallback"
              /\ pc'[c] # "stop_cleanup") =>
                /\ ret'.ok
                /\ ret'.val = <<local[c].output_path>>
                /\ files'[local[c].output_path][1] = "video"]_vars

\* C7 happens: a stop whose mux failed returned Ok and the output holds the
\* video-only content
C7_Witness ==
    /\ ret.op = "stop"
    /\ ret.via = "fallback"
    /\ ret.ok
    /\ files["a.mp4"][1] = "video"
    /\ ~Exists("a_video.mp4")

\* C8: the value stop returns after falling back to the video-only file
\* differs from the value it returns after a successful mux of the same
\* output path.
C8_FallbackDistinguishable ==
    (ret.op = "stop" /\ ret.via = "fallback") =>
        \A out \in OutputPaths :
            ret.val = <<out>> =>
                <<ret.ok, ret.val>> # <<StopOk(out, "muxed").ok, StopOk(out, "muxed").val>>

\* C9: whenever a stop that reached the mux stage returns, with Ok or with
\* an error, both temporary files of its session are gone.
C9_TemporariesDeletedOnReturn ==
    [][\A c \in Callers :
          (pc[c] \in MuxStages /\ pc'[c] = "idle") =>
              /\ files'[VideoOnlyPath(local[c].output_path)] = NoFile
              /\ files'[AudioPath(local[c].output_path)] = NoFile]_vars

\* C10: while stop waits for the video process to exit or for the audio
\* thread to end, it does not hold the session lock.
C10_WaitsOutsideSessionLock ==
    \A c \in Callers :
        pc[c] \in {"stop_poll", "stop_kill", "stop_join"} => sessionLock # c

-----------------------------------------------------------------------------
(* Claims C11, C12: the end of a capture session *)

\* C11: stop enters the poll loop only after the quit request was written to
\* the video process; every iteration of the loop either leaves the loop or
\* counts one more sleep, at most PollLimit of them; the loop is always
\* followed by kill and wait, and from there until the session is cleared no
\* video process is running.
C11_SignalPollKill ==
    [][\A c \in Callers :
          /\ (pc[c] # "stop_poll" /\ pc'[c] = "stop_poll") =>
                /\ pc[c] = "stop_take"
                /\ \E p \in procs' : p.pid = local'[c].pid /\ p.asked
          /\ StopPoll(c) =>
                \/ pc'[c] = "stop_kill"
                \/ /\ pc'[c] = "stop_poll"
                   /\ local'[c].polls = local[c].polls + 1
                   /\ local'[c].polls <= PollLimit
          /\ (pc[c] # "stop_audio" /\ pc'[c] = "stop_audio") =>
                /\ pc[c] = "stop_kill"
                /\ \A p \in procs' : p.pid # local[c].pid
          /\ pc'[c] \in {"stop_audio", "stop_join", "stop_clear"} =>
                {p \in procs' : p.st = "running"} = {}]_vars

\* C11 happens: the process did not exit during PollLimit polls, was killed,
\* and stop has gone on
C11_Witness ==
    \E c \in Callers :
        /\ pc[c] = "stop_audio"
        /\ local[c].pid # 0
        /\ local[c].polls = PollLimit
        /\ \A p \in procs : p.pid # local[c].pid

MuxError == Err("stop", "Failed to mux audio and video")

\* the last return was that of a stop which found an active session
StopOfActiveReturned == ret.op = "stop" /\ ret # NotActiveError

\* C12: when a stop of an active session returns, with Ok or with an error of
\* the mux stage, the session is idle and its output path, process id and
\* timestamps are cleared; a start that follows is not rejected as busy.
C12_SessionClearedAfterStop ==
    [][\A c \in Callers :
          /\ (pc[c] \in MuxStages \cup {"stop_check"} /\ pc'[c] = "idle") =>
                /\ ret'.op = "stop"
                /\ ~session'.is_recording
                /\ session'.output_path = ""
                /\ session'.ffmpeg_process = None
                /\ session'.start_time = None
                /\ session'.video_start_time = None
                /\ session'.audio_start_time = None
          /\ \A p \in OutputPaths :
                (StopOfActiveReturned /\ StartBegin(c, p)) =>
                    /\ ~session.is_recording
                    /\ ret' # BusyError]_vars

\* C12 happens: a stop returned the mux error and left the session cleared
C12_Witness ==
    /\ ret = MuxError
    /\ session.output_path = ""
    /\ ~session.is_recording
    /\ next_pid = 2

-----------------------------------------------------------------------------
(* Claims C13..C20: the export *)

Returned == ex_pc = "done"

NumClips == Len(ex_in.clips)

AllOnTrack0 == \A k \in DOMAIN ex_in.clips : ex_in.clips[k].track = 0

StepsOfKind(kinds) == {j \in DOMAIN ex_log : ex_log[j].kind \in kinds}

\* the files an attempt wrote, the requested output aside
Temporaries == ex_created \ {ex_in.outputPath}

\* the errors export returns before it has invoked the engine for a single
\* clip
RejectedUnrun ==
    {"Output path must end with .mp4 or .mov, got", "Input video file not found",
     "Subtitle file not found", "Failed to read SRT", "Failed to copy SRT"}

\* C13 as stated: an export of a timeline whose only clip is one clip on
\* track 0 invokes the engine for exactly one transcode step.
C13_SingleClipExactlyOneStep ==
    (Returned /\ NumClips = 1 /\ AllOnTrack0) =>
        /\ Len(ex_log) = 1
        /\ ex_log[1].kind = "transcode"

\* C13 amended: an export of a timeline whose only clip is one clip on
\* track 0 invokes the engine at most once, for a transcode step of that
\* clip into the output path; it invokes it exactly once unless it rejects
\* the output extension, misses the input file or fails to stage the
\* subtitle file, in which cases it returns that error without any
\* invocation.
C13_SingleClipAtMostOneStep ==
    (NumClips = 1 /\ AllOnTrack0) =>
        /\ Len(ex_log) <= 1
        /\ \A j \in DOMAIN ex_log :
              /\ ex_log[j].kind = "transcode"
              /\ ex_log[j].clip = ex_in.clips[1]
              /\ ex_log[j].out = ex_in.outputPath
        /\ Returned =>
              (Len(ex_log) = 0 <=> (~ex_ret.ok /\ ex_ret.val[1] \in RejectedUnrun))
        /\ (Returned /\ SupportedExtension(ex_in.outputPath)
            /\ PathExists(ExportFs0, ex_in.clips[1].file_path)
            /\ ex_in.subtitleSrtPath = NoPath) => Len(ex_log) = 1

\* C13 happens: a single clip with subtitles was exported by one step
C13_Witness ==
    /\ Returned
    /\ NumClips = 1
    /\ AllOnTrack0
    /\ ex_in.subtitleSrtPath = "s.srt"
    /\ ex_ret.ok
    /\ Len(ex_log) = 1

\* C14 as stated: a successful export of N > 1 clips, all on track 0, has
\* invoked N trim steps and one concatenation step and has created N + 1
\* temporary files.
C14_ConcatCreatesNPlusOne ==
    (Returned /\ ex_ret.ok /\ NumClips > 1 /\ AllOnTrack0) =>
        /\ Cardinality(StepsOfKind({"trim"})) = NumClips
        /\ Cardinality(StepsOfKind({"concat"})) = 1
        /\ Len(ex_log) = NumClips + 1
        /\ Cardinality(Temporaries) = NumClips + 1

\* C14 amended: a successful export of N > 1 clips, all on track 0, has
\* invoked N trim steps and one concatenation step and has created the N
\* clip files and the list file, and the staged copy of the subtitle file
\* where subtitles were asked for: N + 1 temporary files without subtitles,
\* N + 2 with them.
C14_ConcatCreatesClipsListAndSubtitles ==
    (Returned /\ ex_ret.ok /\ NumClips > 1 /\ AllOnTrack0) =>
        /\ Cardinality(StepsOfKind({"trim"})) = NumClips
        /\ Cardinality(StepsOfKind({"concat"})) = 1
        /\ Len(ex_log) = NumClips + 1
        /\ Temporaries = {ex_log[j].out : j \in StepsOfKind({"trim"})}
                         \cup {"concat_list.txt"}
                         \cup StagedSubtitles(ex_in.subtitleSrtPath)
        /\ Cardinality(Temporaries) =
              NumClips + 1 + Cardinality(StagedSubtitles(ex_in.subtitleSrtPath))

\* C14 happens: two clips on track 0 with subtitles were exported
C14_Witness ==
    /\ Returned
    /\ ex_ret.ok
    /\ NumClips = 2
    /\ AllOnTrack0
    /\ ex_in.subtitleSrtPath = "s.srt"
    /\ Cardinality(Temporaries) = 4

\* per-clip files, concatenation lists, base video and overlay layer that
\* the attempt wrote
IntermediateFiles == Temporaries \ {"./temp_subtitles.srt"}

\* C15: when export returns, with success or with an error, none of the
\* intermediate files it created exists any more.
C15_IntermediatesDeletedOnReturn ==
    Returned => \A f \in IntermediateFiles : ~PathExists(ex_files, f)

\* C16: the concatenation step is invoked only after a trim step of every
\* clip of track 0 has ended with success; the base video step likewise; the
\* final composite step is invoked only after the base video step and the
\* overlay layer step have ended with success, with no failed step before it.
C16_DependencyOrder ==
    \A j \in DOMAIN ex_log :
        /\ ex_log[j].kind \in {"concat", "base"} =>
              /\ j = Len(ex_local.track_0_clips) + 1
              /\ \A i \in 1..(j - 1) :
                    /\ ex_log[i].kind = IF ex_log[j].kind = "concat"
                                        THEN "trim" ELSE "base_trim"
                    /\ ex_log[i].clip = ex_local.track_0_clips[i]
                    /\ ex_log[i].outcome \in {"success", "success_no_file"}
        /\ ex_log[j].kind = "final" =>
              /\ \E b \in 1..(j - 1) : ex_log[b].kind = "base"
              /\ \A i \in 1..(j - 1) : ex_log[i].outcome = "success"
              /\ Len(ex_local.track_1_clips) = 1 =>
                    /\ ex_log[j - 1].kind = "overlay"
                    /\ ex_log[j - 1].clip = ex_local.track_1_clips[1]

\* C16 happens: a composite export has run its trim, base, overlay and final
\* steps
C16_Witness ==
    /\ Returned
    /\ Len(ex_log) = 4
    /\ ex_log[2].kind = "base"
    /\ ex_log[3].kind = "overlay"
    /\ ex_log[4].kind = "final"

NonFinalKinds == {"trim", "base_trim", "base", "overlay"}

\* C17: a non-final step that exits with failure is the last step invoked,
\* and export then returns an error that carries the engine's diagnostic
\* output.
C17_FailedStepReported ==
    \A j \in DOMAIN ex_log :
        (ex_log[j].kind \in NonFinalKinds /\ ex_log[j].outcome = "exit_failure") =>
            /\ j = Len(ex_log)
            /\ Returned
            /\ ~ex_ret.ok
            /\ "stderr" \in Range(ex_ret.val)

\* C18: when the last step of an export (the transcode step, the
\* concatenation step, the final composite step) has exited with success and
\* the output file does not exist, export returns an error.
C18_MissingOutputIsError ==
    (Returned /\ ex_log # <<>>
     /\ ex_log[Len(ex_log)].kind \in {"transcode", "concat", "final"}
     /\ ex_log[Len(ex_log)].outcome = "success_no_file"
     /\ ~PathExists(ex_files, ex_in.outputPath)) => ~ex_ret.ok

\* the timeline given is one export must reject: unsupported extension, no
\* clip on track 0, or a clip whose input file does not exist
InvalidTimeline ==
    /\ ex_pc \notin {"off", "idle"}
    /\ \/ ~SupportedExtension(ex_in.outputPath)
       \/ \A k \in DOMAIN ex_in.clips : ex_in.clips[k].track # 0
       \/ \E k \in DOMAIN ex_in.clips : ~PathExists(ExportFs0, ex_in.clips[k].file_path)

\* C19: for an invalid timeline export invokes the engine for no step and
\* writes no file, and it returns an error.
C19_InvalidRejectedFirst ==
    InvalidTimeline =>
        /\ ex_log = <<>>
        /\ ex_created = {}
        /\ Returned => ~ex_ret.ok

\* the clips of track 0 have pairwise distinct start times
DistinctStartTimes ==
    \A k, l \in DOMAIN ex_in.clips :
        (k # l /\ ex_in.clips[k].track = 0 /\ ex_in.clips[l].track = 0)
        => ex_in.clips[k].start_time # ex_in.clips[l].start_time

\* the place of a clip among the clips of track 0 in ascending start time
Rank(c) ==
    1 + Cardinality({k \in DOMAIN ex_in.clips :
                        /\ ex_in.clips[k].track = 0
                        /\ ex_in.clips[k].start_time < c.start_time})

ListFiles == {"concat_list.txt", "track0_concat.txt"}

\* C20: with distinct start times on track 0, the i-th trim step is that of
\* the clip of track 0 with the i-th smallest start time, whatever the order
\* in which the clips were given, and the concatenation list names the
\* outputs of the trim steps in that order.
C20_OrderByStartTime ==
    DistinctStartTimes =>
        /\ \A j \in StepsOfKind({"trim", "base_trim"}) :
              /\ ex_log[j].clip.track = 0
              /\ Rank(ex_log[j].clip) = j
        /\ \A f \in ListFiles \cap DOMAIN ex_files :
              /\ Len(ex_files[f][2]) = Cardinality(StepsOfKind({"trim", "base_trim"}))
              /\ \A i \in DOMAIN ex_files[f][2] : ex_files[f][2][i] = ex_log[i].out

\* C20 happens: two clips of track 0 were given in descending start time,
\* were trimmed in ascending start time and concatenated
C20_Witness ==
    /\ Returned
    /\ ex_ret.ok
    /\ NumClips = 2
    /\ AllOnTrack0
    /\ ex_in.clips[1].start_time > ex_in.clips[2].start_time
    /\ Len(ex_log) = 3
    /\ ex_log[1].clip = ex_in.clips[2]
    /\ ex_log[2].clip = ex_in.clips[1]
    /\ PathExists(ex_files, ex_in.outputPath)

-----------------------------------------------------------------------------
(* Failure of the audio capture, order of spawn and timestamp, probe failure *)

\* C26: whenever the audio capture fails to start, the failure inside the
\* capture thread (no device, no stream) included, the session holds no
\* audio-start timestamp.
C26_AudioFailureRecordsNoTimestamp ==
    (session.is_recording /\ DeviceUnavailable)
    => session.audio_start_time = None

\* position of an event in the order of the statements of start
PositionOf(order, e) == CHOOSE i \in 1..Len(order) : order[i] = e

\* C27: in start, the spawn of the video capture process precedes the
\* reading of the video-start timestamp, and no warm-up wait lies between
\* the two.
C27_SpawnBeforeTimestamp ==
    \A c \in Callers :
        pc[c] = "start_spawned"
        => /\ PositionOf(local[c].order, "spawn")
                < PositionOf(local[c].order, "Instant::now")
           /\ local[c].video_start = clock

\* C28: a probe failure never aborts the operation that asked for the
\* duration: a stop that probes its two files goes on to the mux step.
C28_ProbeFailureNeverAborts ==
    [][\A c \in Callers :
          pc[c] = "stop_probe" => pc'[c] \in {"stop_probe", "stop_mux"}]_vars

-----------------------------------------------------------------------------
(* Functions followed on their own: the arguments are drawn from a bounded *)
(* set, the function is applied, it returns, the next arguments are drawn. *)

FnInit ==
    /\ CaptureInit
    /\ off_in = [audio |-> None, video |-> None]
    /\ off_out = NoOffsetOut
    /\ off_pc = "off"
    /\ ExportOff
    /\ fn_in = <<>>
    /\ fn_out = <<>>
    /\ fn_pc = "idle"

FnDraw(inputs) ==
    /\ fn_pc = "idle"
    /\ fn_in' \in inputs
    /\ fn_out' = <<>>
    /\ fn_pc' = "drawn"
    /\ UNCHANGED <<captureVars, offsetVars, exportVars>>

\* the value returned has been used; the next arguments can be drawn
FnReturn ==
    /\ fn_pc = "applied"
    /\ fn_in' = <<>>
    /\ fn_out' = <<>>
    /\ fn_pc' = "idle"
    /\ UNCHANGED <<captureVars, offsetVars, exportVars>>

FnApply(result) ==
    /\ fn_pc = "drawn"
    /\ fn_out' = result
    /\ fn_pc' = "applied"
    /\ UNCHANGED fn_in
    /\ UNCHANGED <<captureVars, offsetVars, exportVars>>

\* an Option<T> is the empty set (None) or a set of one value (Some)
Some(x) == {x}

Unwrap(o) == CHOOSE x \in o : TRUE

\* parts.join(sep) of a sequence of strings
RECURSIVE Join(_, _)
Join(parts, sep) ==
    IF parts = <<>> THEN ""
    ELSE IF Len(parts) = 1 THEN parts[1]
    ELSE parts[1] \o sep \o Join(Tail(parts), sep)

-----------------------------------------------------------------------------
(* build_eq_filter, lib.rs:737-765.  A value of type f64 that the code     *)
(* formats with {:.3} is kept in thousandths.                              *)

\* the range of a filter value (lib.rs:743, 749, 755)
FilterValues == -100..100

\* filter values tried in every combination of the three fields
MixedValues == {-100, -37, 0, 5, 100}

\* struct ClipFilters (lib.rs:82-87) behind an Option: every field set to the
\* same value or left out, for every value of the range, and every
\* combination of the mixed values
EqInputs ==
    {{}}
    \cup {Some([brightness |-> IF b THEN {v} ELSE {},
                contrast |-> IF c THEN {v} ELSE {},
                saturation |-> IF s THEN {v} ELSE {}]) :
            v \in FilterValues, b \in BOOLEAN, c \in BOOLEAN, s \in BOOLEAN}
    \cup {Some([brightness |-> {b}, contrast |-> {c}, saturation |-> {s}]) :
            b \in MixedValues, c \in MixedValues, s \in MixedValues}

\* format!("{:03}") of the fraction, three digits
Pad3(n) ==
    IF n < 10 THEN "00" \o ToString(n)
    ELSE IF n < 100 THEN "0" \o ToString(n)
    ELSE ToString(n)

\* format!("{:.3}", x) of the f64 that is t thousandths
Format3(t) ==
    (IF t < 0 THEN "-" ELSE "") \o ToString(Abs(t) \div 1000) \o "."
        \o Pad3(Abs(t) % 1000)

\* Line 744: brightness as f64 / 100.0
BrightnessVal(brightness) == brightness * 10

ContrastVal_NoOne(contrast) == contrast * 10

\* Line 750: 1.0 + (contrast as f64 / 100.0)
ContrastVal(contrast) == 1000 + contrast * 10

\* Line 756: 1.0 + (saturation as f64 / 100.0)
SaturationVal(saturation) == 1000 + saturation * 10

\* Lines 737-765: the parts pushed, and the string returned (an Option)
build_eq_filter(filters) ==
    IF filters = {}
    THEN [parts |-> <<>>, eq |-> {}]
    ELSE LET f == Unwrap(filters)
             parts ==
                (IF f.brightness # {}
                 THEN <<[name |-> "brightness",
                         val |-> BrightnessVal(Unwrap(f.brightness))]>>
                 ELSE <<>>)
                \o (IF f.contrast # {}
                    THEN <<[name |-> "contrast",
                            val |-> ContrastVal(Unwrap(f.contrast))]>>
                    ELSE <<>>)
                \o (IF f.saturation # {}
                    THEN <<[name |-> "saturation",
                            val |-> SaturationVal(Unwrap(f.saturation))]>>
                    ELSE <<>>)
             texts == [i \in 1..Len(parts) |->
                          parts[i].name \o "=" \o Format3(parts[i].val)]
         IN [parts |-> parts,
             eq |-> IF parts = <<>> THEN {}
                    ELSE Some("eq=" \o Join(texts, ":"))]

EqDraw == FnDraw(EqInputs)

EqApply == FnApply(build_eq_filter(fn_in))

EqNext == EqDraw \/ EqApply \/ FnReturn

EqSpec == FnInit /\ [][EqNext]_vars

\* the fields of the filters drawn that are set
FieldsSet ==
    IF fn_in = {} THEN {}
    ELSE {n \in {"brightness", "contrast", "saturation"} : Unwrap(fn_in)[n] # {}}

\* all three fields are set to v
AllSetTo(v) ==
    /\ fn_in # {}
    /\ Unwrap(fn_in) = [brightness |-> {v}, contrast |-> {v}, saturation |-> {v}]

\* C21: for every filter value v of [-100,100], build_eq_filter emits
\* brightness = v/100, contrast = 1 + v/100 and saturation = 1 + v/100 with
\* three decimals, one part for each field that is set and no other; 0 gives
\* 0, 1, 1; 100 gives 1, 2, 2; -100 gives -1, 0, 0; without any field set
\* there is no eq filter at all.
C21_EqFilterLinear ==
    fn_pc = "applied" =>
        /\ (FieldsSet = {}) <=> (fn_out.eq = {})
        /\ {fn_out.parts[i].name : i \in 1..Len(fn_out.parts)} = FieldsSet
        /\ Len(fn_out.parts) = Cardinality(FieldsSet)
        /\ \A i \in 1..Len(fn_out.parts) :
              LET part == fn_out.parts[i]
                  v == Unwrap(Unwrap(fn_in)[part.name])
              IN \* the value emitted, in thousandths, against v/100
                 IF part.name = "brightness"
                 THEN part.val * 100 = v * 1000
                 ELSE (part.val - 1000) * 100 = v * 1000
        /\ AllSetTo(0) =>
              fn_out.eq = {"eq=brightness=0.000:contrast=1.000:saturation=1.000"}
        /\ AllSetTo(100) =>
              fn_out.eq = {"eq=brightness=1.000:contrast=2.000:saturation=2.000"}
        /\ AllSetTo(-100) =>
              fn_out.eq = {"eq=brightness=-1.000:contrast=0.000:saturation=0.000"}
        /\ AllSetTo(-37) =>
              fn_out.eq = {"eq=brightness=-0.370:contrast=0.630:saturation=0.630"}

\* the lower bound has been mapped: -1, 0, 0
C21_Witness ==
    /\ fn_pc = "applied"
    /\ AllSetTo(-100)
    /\ fn_out.eq = {"eq=brightness=-1.000:contrast=0.000:saturation=0.000"}

-----------------------------------------------------------------------------
(* Texts.  A &str is a sequence of characters, each a string of length 1.  *)
(* A longer string stands, in texts the code writes, for a literal piece   *)
(* that holds none of the characters a text is searched for.               *)

\* s[i..] starts with pat
StartsWithAt(s, pat, i) ==
    /\ i + Len(pat) - 1 <= Len(s)
    /\ SubSeq(s, i, i + Len(pat) - 1) = pat

\* str::find from position i: the first position of pat, 0 when there is none
RECURSIVE Find(_, _, _)
Find(s, pat, i) ==
    IF i + Len(pat) - 1 > Len(s) THEN 0
    ELSE IF StartsWithAt(s, pat, i) THEN i
    ELSE Find(s, pat, i + 1)

\* str::split(pat).collect(): the pieces between the occurrences of pat,
\* taken from the left without overlap; a text without pat is one piece
RECURSIVE Split(_, _)
Split(s, pat) ==
    LET k == Find(s, pat, 1)
    IN IF k = 0 THEN <<s>>
       ELSE <<SubSeq(s, 1, k - 1)>> \o Split(SubSeq(s, k + Len(pat), Len(s)), pat)

\* char::is_whitespace, for the characters of the texts tried
IsWhitespace(c) == c \in {" ", "\n", "\r", "\t"}

\* str::trim
RECURSIVE Trim(_)
Trim(s) ==
    IF s = <<>> THEN s
    ELSE IF IsWhitespace(s[1]) THEN Trim(Tail(s))
    ELSE IF IsWhitespace(s[Len(s)]) THEN Trim(SubSeq(s, 1, Len(s) - 1))
    ELSE s

\* str::lines().collect(): the pieces between line feeds, without the empty
\* piece after a final line feed and without a carriage return at the end
Lines(s) ==
    LET pieces == Split(s, <<"\n">>)
        kept == IF pieces[Len(pieces)] = <<>>
                THEN SubSeq(pieces, 1, Len(pieces) - 1)
                ELSE pieces
    IN [i \in 1..Len(kept) |->
           IF kept[i] # <<>> /\ kept[i][Len(kept[i])] = "\r"
           THEN SubSeq(kept[i], 1, Len(kept[i]) - 1)
           ELSE kept[i]]

\* [texts].join(sep)
RECURSIVE JoinText(_, _)
JoinText(texts, sep) ==
    IF texts = <<>> THEN <<>>
    ELSE IF Len(texts) = 1 THEN texts[1]
    ELSE texts[1] \o sep \o JoinText(Tail(texts), sep)

\* str::replace of the one-character pattern c by the text t
RECURSIVE Replace(_, _, _)
Replace(s, c, t) ==
    IF s = <<>> THEN <<>>
    ELSE (IF s[1] = c THEN t ELSE <<s[1]>>) \o Replace(Tail(s), c, t)

DigitChars == {ToString(n) : n \in 0..9}

DigitVal(c) == CHOOSE n \in 0..9 : ToString(n) = c

RECURSIVE DigitsValue(_)
DigitsValue(s) ==
    IF s = <<>> THEN 0
    ELSE DigitsValue(SubSeq(s, 1, Len(s) - 1)) * 10 + DigitVal(s[Len(s)])

\* str::parse::<u32>(): an optional plus sign, then one decimal digit or
\* more and nothing else; None stands for the error.  The fields tried have
\* at most three digits, so the value fits a u32.
ParseU32(s) ==
    LET digits == IF s # <<>> /\ s[1] = "+" THEN Tail(s) ELSE s
    IN IF digits = <<>> \/ \E i \in 1..Len(digits) : digits[i] \notin DigitChars
       THEN {}
       ELSE Some(DigitsValue(digits))

-----------------------------------------------------------------------------
(* parse_time_string, transcription.rs:149-176.  The f64 returned, a       *)
(* number of seconds, is kept in thousandths.                              *)

TimeOk(v) == [ok |-> TRUE, val |-> v, err |-> ""]

TimeErr(msg) == [ok |-> FALSE, val |-> 0, err |-> msg]

TotalSeconds_MinutesAsSeconds(hours, minutes, seconds, milliseconds) ==
    (hours * 3600 + minutes + seconds) * 1000 + milliseconds

\* Lines 172-173: (hours * 3600 + minutes * 60 + seconds) as f64
\*                + (milliseconds as f64 / 1000.0)
TotalSeconds(hours, minutes, seconds, milliseconds) ==
    (hours * 3600 + minutes * 60 + seconds) * 1000 + milliseconds

parse_time_string(time_str) ==
    LET parts == Split(Trim(time_str), <<":">>)
    IN IF Len(parts) # 3 THEN TimeErr("Invalid time format")
       ELSE LET hours == ParseU32(parts[1])
                minutes == ParseU32(parts[2])
                seconds_part == Split(parts[3], <<",">>)
            IN IF hours = {} THEN TimeErr("Invalid hours")
               ELSE IF minutes = {} THEN TimeErr("Invalid minutes")
               ELSE IF Len(seconds_part) # 2 THEN TimeErr("Invalid seconds format")
               ELSE LET seconds == ParseU32(seconds_part[1])
                        milliseconds == ParseU32(seconds_part[2])
                    IN IF seconds = {} THEN TimeErr("Invalid seconds")
                       ELSE IF milliseconds = {} THEN TimeErr("Invalid milliseconds")
                       ELSE TimeOk(TotalSeconds(Unwrap(hours), Unwrap(minutes),
                                                Unwrap(seconds),
                                                Unwrap(milliseconds)))

\* n written with two digits, and with three
Digits2(n) == <<ToString(n \div 10), ToString(n % 10)>>

Digits3(n) == <<ToString(n \div 100)>> \o Digits2(n % 100)

\* a field of a time string: its text and, when the text is a number, the
\* number; `plain' says that the text is the number written in digits only
NumberField(text, n) == [text |-> text, num |-> {n}, plain |-> TRUE]

TwoDigitFields == {NumberField(Digits2(n), n) : n \in {0, 1, 30}}

ThreeDigitFields == {NumberField(Digits3(n), n) : n \in {0, 123, 500}}

OddFields ==
    {[text |-> <<>>, num |-> {}, plain |-> FALSE],
     [text |-> <<"x", "5">>, num |-> {}, plain |-> FALSE],
     [text |-> <<"+", "5">>, num |-> {5}, plain |-> FALSE]}

\* a field with a blank inside the string (never the last field, where the
\* blank is at the end of the string and is trimmed)
BlankField == [text |-> <<"0", " ">>, num |-> {}, plain |-> FALSE]

\* what stands between two fields
Separators == {<<":">>, <<",">>, <<>>}

\* the time strings tried: four fields and the three separators between
\* them, with or without a blank at the end
TimeInputs ==
    [f : [1..3 -> TwoDigitFields \cup OddFields \cup {BlankField}]
         \X (ThreeDigitFields \cup OddFields),
     s : [1..3 -> Separators],
     pad : {<<>>, <<" ">>}]

\* the fields of the input, in order
FieldsOf(in) == <<in.f[1][1], in.f[1][2], in.f[1][3], in.f[2]>>

TimeText(in) ==
    LET f == FieldsOf(in)
    IN f[1].text \o in.s[1] \o f[2].text \o in.s[2] \o f[3].text \o in.s[3]
       \o f[4].text \o in.pad

TimeDraw == FnDraw(TimeInputs)

TimeApply == FnApply(parse_time_string(TimeText(fn_in)))

TimeNext == TimeDraw \/ TimeApply \/ FnReturn

TimeSpec == FnInit /\ [][TimeNext]_vars

\* the input is HH:MM:SS,mmm
WellFormedTime(in) ==
    /\ in.s = <<<<":">>, <<":">>, <<",">>>>
    /\ \A i \in 1..4 : FieldsOf(in)[i].plain

\* C23: parse_time_string maps every well-formed "HH:MM:SS,mmm" to
\* hours*3600 + minutes*60 + seconds + milliseconds/1000 seconds, and
\* returns an error, never a value, when the string has not exactly three
\* colon-separated parts, or not exactly one comma in the seconds part, or
\* a field that is no number.
C23_ParseTimeString ==
    fn_pc = "applied" =>
        LET f == FieldsOf(fn_in)
        IN /\ WellFormedTime(fn_in) =>
                 /\ fn_out.ok
                 /\ fn_out.val = Unwrap(f[1].num) * 3600000
                                 + Unwrap(f[2].num) * 60000
                                 + Unwrap(f[3].num) * 1000
                                 + Unwrap(f[4].num)
           /\ (\/ fn_in.s # <<<<":">>, <<":">>, <<",">>>>
               \/ \E i \in 1..4 : f[i].num = {})
              => (~fn_out.ok /\ fn_out.val = 0)

\* "00:01:30,500" has been parsed: 90.5 seconds
C23_Witness ==
    /\ fn_pc = "applied"
    /\ TimeText(fn_in) = <<"0", "0", ":", "0", "1", ":", "3", "0", ",", "5", "0", "0">>
    /\ fn_out = TimeOk(90500)

\* a string with a field that is no number has been refused
C23_WitnessError ==
    /\ fn_pc = "applied"
    /\ fn_in.s = <<<<":">>, <<":">>, <<",">>>>
    /\ FieldsOf(fn_in)[2].num = {}
    /\ ~fn_out.ok

-----------------------------------------------------------------------------
(* Subtitle files.  A file is a sequence of blocks, separated by one blank *)
(* line or by two; a block is drawn from a pool of well-formed entries and *)
(* of blocks that are short or have a wrong id or timestamp line.          *)

\* number of blocks of a subtitle file
MaxBlocks == 3

\* a time of day: hours, minutes, seconds, milliseconds
Stamp(h, m, s, ms) == [h |-> h, m |-> m, s |-> s, ms |-> ms]

\* "HH:MM:SS,mmm" with the given mark before the milliseconds
StampText(t, mark) ==
    Digits2(t.h) \o <<":">> \o Digits2(t.m) \o <<":">> \o Digits2(t.s)
        \o <<mark>> \o Digits3(t.ms)

\* the time of day in thousandths of a second
StampMillis(t) == t.h * 3600000 + t.m * 60000 + t.s * 1000 + t.ms

Arrow == <<" ", "-", "-", ">", " ">>

\* "start --> end"
TimeLine(a, b) == StampText(a, ",") \o Arrow \o StampText(b, ",")

BlockPool ==
    {[kind |-> "entry", id |-> 1, start |-> Stamp(0, 0, 0, 0),
      end |-> Stamp(0, 0, 5, 250),
      lines |-> <<<<"1">>, TimeLine(Stamp(0, 0, 0, 0), Stamp(0, 0, 5, 250)),
                  <<"a">>>>,
      text |-> <<"a">>],
     [kind |-> "entry", id |-> 2, start |-> Stamp(0, 0, 5, 250),
      end |-> Stamp(1, 1, 30, 500),
      lines |-> <<<<"2">>, TimeLine(Stamp(0, 0, 5, 250), Stamp(1, 1, 30, 500)),
                  <<"b", " ", "c">>, <<"{", "d", "}">>>>,
      text |-> <<"b", " ", "c", "\n", "{", "d", "}">>],
     [kind |-> "short", id |-> 3, start |-> Stamp(0, 0, 0, 0),
      end |-> Stamp(0, 0, 1, 0),
      lines |-> <<<<"3">>, TimeLine(Stamp(0, 0, 0, 0), Stamp(0, 0, 1, 0))>>,
      text |-> <<>>],
     [kind |-> "short", id |-> 0, start |-> Stamp(0, 0, 0, 0),
      end |-> Stamp(0, 0, 0, 0),
      lines |-> <<<<"x">>, <<"y">>>>,
      text |-> <<>>],
     [kind |-> "bad_id", id |-> 0, start |-> Stamp(0, 0, 0, 0),
      end |-> Stamp(0, 0, 1, 0),
      lines |-> <<<<"x">>, TimeLine(Stamp(0, 0, 0, 0), Stamp(0, 0, 1, 0)),
                  <<"a">>>>,
      text |-> <<"a">>],
     [kind |-> "bad_time", id |-> 4, start |-> Stamp(0, 0, 0, 0),
      end |-> Stamp(0, 0, 1, 0),
      lines |-> <<<<"4">>,
                  StampText(Stamp(0, 0, 0, 0), ",") \o <<" ", "-", ">", " ">>
                      \o StampText(Stamp(0, 0, 1, 0), ","),
                  <<"a">>>>,
      text |-> <<"a">>],
     [kind |-> "bad_time", id |-> 5, start |-> Stamp(0, 0, 0, 0),
      end |-> Stamp(0, 0, 1, 0),
      lines |-> <<<<"5">>,
                  StampText(Stamp(0, 0, 0, 0), ",") \o Arrow
                      \o StampText(Stamp(0, 0, 1, 0), "."),
                  <<"a">>>>,
      text |-> <<"a">>]}

\* the subtitle files tried: the blocks, the blank lines between two blocks,
\* and what follows the last block
SrtInputs ==
    [blocks : UNION {[1..n -> BlockPool] : n \in 0..MaxBlocks},
     gap : {<<"\n", "\n">>, <<"\n", "\n", "\n">>},
     tail : {<<>>, <<"\n">>}]

\* the content of the file
SrtText(in) ==
    JoinText([i \in 1..Len(in.blocks) |->
                 JoinText(in.blocks[i].lines, <<"\n">>)], in.gap)
        \o in.tail

-----------------------------------------------------------------------------
(* parse_srt and parse_srt_timestamp, transcription.rs:101-147 *)

\* Lines 137-147
parse_srt_timestamp(timestamp_str) ==
    LET parts == Split(timestamp_str, Arrow)
    IN IF Len(parts) # 2
       THEN [ok |-> FALSE, start |-> 0, end |-> 0]
       ELSE LET start == parse_time_string(parts[1])
                end == parse_time_string(parts[2])
            IN IF ~start.ok \/ ~end.ok
               THEN [ok |-> FALSE, start |-> 0, end |-> 0]
               ELSE [ok |-> TRUE, start |-> start.val, end |-> end.val]

SrtOk(subtitles) == [ok |-> TRUE, subtitles |-> subtitles, err |-> ""]

SrtErr(msg) == [ok |-> FALSE, subtitles |-> <<>>, err |-> msg]

TooShort_BelowTwo(lines) == Len(lines) < 2

\* Line 107: if lines.len() < 3
TooShort(lines) == Len(lines) < 3

\* Lines 105-131: the loop over the blocks, from block i on, with the
\* entries pushed so far
RECURSIVE ParseBlocks(_, _, _)
ParseBlocks(blocks, i, subtitles) ==
    IF i > Len(blocks) THEN SrtOk(subtitles)
    ELSE LET lines == Lines(Trim(blocks[i]))
         IN IF TooShort(lines)
            THEN ParseBlocks(blocks, i + 1, subtitles)
            ELSE LET id == ParseU32(Trim(lines[1]))
                     stamps == parse_srt_timestamp(lines[2])
                     text == Trim(JoinText(SubSeq(lines, 3, Len(lines)),
                                           <<"\n">>))
                 IN IF id = {} THEN SrtErr("Invalid subtitle ID")
                    ELSE IF ~stamps.ok THEN SrtErr("Invalid timestamp format")
                    ELSE ParseBlocks(blocks, i + 1,
                            IF text # <<>>
                            THEN Append(subtitles,
                                        [id |-> Unwrap(id),
                                         start_time |-> stamps.start,
                                         end_time |-> stamps.end,
                                         text |-> text])
                            ELSE subtitles)

\* Lines 101-134
parse_srt(srt_content) ==
    ParseBlocks(Split(srt_content, <<"\n", "\n">>), 1, <<>>)

SrtDraw == FnDraw(SrtInputs)

SrtApply == FnApply(parse_srt(SrtText(fn_in)))

SrtNext == SrtDraw \/ SrtApply \/ FnReturn

SrtSpec == FnInit /\ [][SrtNext]_vars

\* the blocks of the file drawn that are of one of the kinds
RECURSIVE BlocksOfKind(_, _)
BlocksOfKind(blocks, kinds) ==
    IF blocks = <<>> THEN <<>>
    ELSE (IF blocks[1].kind \in kinds THEN <<blocks[1]>> ELSE <<>>)
         \o BlocksOfKind(Tail(blocks), kinds)

-----------------------------------------------------------------------------
(* convert_srt_to_ass_content, parse_srt_time and srt_to_ass_time,          *)
(* lib.rs:815-873                                                          *)

\* Lines 816-823: the script header, the style and the head of the events
AssHeader ==
       <<"[Script Info]", "\n">>
    \o <<"Title: VibeClips Subtitles", "\n">>
    \o <<"ScriptType: v4.00+", "\n", "\n">>
    \o <<"[V4+ Styles]", "\n">>
    \o <<"Format: Name", ",", " Fontname", ",", " Fontsize", ",",
         " PrimaryColour", ",", " SecondaryColour", ",", " OutlineColour", ",",
         " BackColour", ",", " Bold", ",", " Italic", ",", " Underline", ",",
         " StrikeOut", ",", " ScaleX", ",", " ScaleY", ",", " Spacing", ",",
         " Angle", ",", " BorderStyle", ",", " Outline", ",", " Shadow", ",",
         " Alignment", ",", " MarginL", ",", " MarginR", ",", " MarginV", ",",
         " Encoding", "\n">>
    \o <<"Style: Default", ",", "Arial", ",", "24", ",", "&Hffffff", ",",
         "&Hffffff", ",", "&H0", ",", "&H80000000", ",", "0", ",", "0", ",",
         "0", ",", "0", ",", "100", ",", "100", ",", "0", ",", "0", ",", "1",
         ",", "2", ",", "1", ",", "2", ",", "10", ",", "10", ",", "10", ",",
         "1", "\n", "\n">>
    \o <<"[Events]", "\n">>
    \o <<"Format: Layer", ",", " Start", ",", " End", ",", " Style", ",",
         " Name", ",", " MarginL", ",", " MarginR", ",", " MarginV", ",",
         " Effect", ",", " Text", "\n">>

\* Lines 869-873: srt_time.replace(",", ".")
srt_to_ass_time(srt_time) == Some(Replace(srt_time, ",", <<".">>))

\* Lines 856-866: None, or the pair of the two converted times
parse_srt_time(time_line) ==
    LET parts == Split(time_line, Arrow)
    IN IF Len(parts) # 2 THEN {}
       ELSE Some(<<Unwrap(srt_to_ass_time(Trim(parts[1]))),
                   Unwrap(srt_to_ass_time(Trim(parts[2])))>>)

\* Lines 842-845: backslash, then the two braces
EscapeAss(text) ==
    Replace(Replace(Replace(text, "\\", <<"\\", "\\">>), "{", <<"\\", "{">>),
            "}", <<"\\", "}">>)

\* Line 847: format!("Dialogue: 0,{},{}Default,,0,0,0,,{}\n", ..)
DialogueLine(start, end, text_escaped) ==
    <<"Dialogue: 0", ",">> \o start \o <<",">> \o end
        \o <<"Default", ",", ",", "0", ",", "0", ",", "0", ",", ",">>
        \o text_escaped \o <<"\n">>

\* Lines 828-850: the loop over the blocks, from block i on
RECURSIVE AssEvents(_, _)
AssEvents(blocks, i) ==
    IF i > Len(blocks) THEN <<>>
    ELSE LET lines == Lines(Trim(blocks[i]))
         IN IF Len(lines) < 3 THEN AssEvents(blocks, i + 1)
            ELSE LET times == parse_srt_time(lines[2])
                     text == JoinText(SubSeq(lines, 3, Len(lines)), <<"\\", "N">>)
                 IN (IF times = {} THEN <<>>
                     ELSE DialogueLine(Unwrap(times)[1], Unwrap(times)[2],
                                       EscapeAss(text)))
                    \o AssEvents(blocks, i + 1)

\* Lines 815-853
convert_srt_to_ass_content(srt_content) ==
    AssHeader \o AssEvents(Split(srt_content, <<"\n", "\n">>), 1)

AssDraw == FnDraw(SrtInputs)

AssApply == FnApply(convert_srt_to_ass_content(SrtText(fn_in)))

AssNext == AssDraw \/ AssApply \/ FnReturn

AssSpec == FnInit /\ [][AssNext]_vars

\* the dialogue lines of a converted file, in order
DialogueLines(ass) ==
    SelectSeq(Lines(ass), LAMBDA l : l # <<>> /\ l[1] = "Dialogue: 0")

\* the file drawn is well-formed: every block is an entry
WellFormedSrt(in) == \A i \in 1..Len(in.blocks) : in.blocks[i].kind = "entry"

\* C22: converting a well-formed subtitle file of N entries yields exactly
\* N dialogue lines in the same order, and the Start and End fields of each
\* line, taken from the line by its commas, are the timestamps of the entry
\* with a dot in place of the comma.
C22_TimestampsRecoverable ==
    (fn_pc = "applied" /\ WellFormedSrt(fn_in)) =>
        LET dialogues == DialogueLines(fn_out)
        IN /\ Len(dialogues) = Len(fn_in.blocks)
           /\ \A i \in 1..Len(dialogues) :
                 LET fields == Split(dialogues[i], <<",">>)
                 IN /\ Len(fields) >= 3
                    /\ fields[2] = StampText(fn_in.blocks[i].start, ".")
                    /\ fields[3] = StampText(fn_in.blocks[i].end, ".")

-----------------------------------------------------------------------------
(* composite_pip_video, lib.rs:371-515.  Times of type f64, in seconds, are *)
(* kept in microseconds (the delay offset) and in thousandths (the         *)
(* duration that is printed with {:.3}).                                   *)

\* Line 430: delay_offset += 0.100
LatencyBufferMicros == 100000

\* screen_start_offset: None, or Some of a number of seconds; 0.0715 and
\* 0.2503 are no whole number of milliseconds
DelayOffsets == {{}} \cup {Some(d) : d \in {0, 71000, 71500, 150000, 250300}}

\* the delay offsets tried for which the f64 product
\* (screen_start_offset + 0.100) * 1000.0 lies just below the whole number
\* of milliseconds: 0.071 + 0.100 is 0.17099999999999999
F64BelowWhole == {71000}

\* what get_video_duration_from_file (lines 179-195) returns: an error, or
\* the duration in thousandths of a second
ProbeResults ==
    {[ok |-> FALSE, dur |-> 0]}
    \cup {[ok |-> TRUE, dur |-> d] : d \in {0, 12345, 60000}}

PipInputs ==
    [screen_has_audio : BOOLEAN,
     webcam_has_audio : BOOLEAN,
     include_system_audio : BOOLEAN,
     include_mic_audio : BOOLEAN,
     size : {"small", "large", "huge"},
     screen_start_offset : DelayOffsets,
     probe : ProbeResults,
     engine : {"spawn_error", "exit_failure", "success"}]

\* Lines 389-394
PipSize(size) ==
    IF size = "small" THEN <<320, 180>>
    ELSE IF size = "medium" THEN <<480, 270>>
    ELSE IF size = "large" THEN <<640, 360>>
    ELSE <<320, 180>>

\* Lines 406-415: the duration of the screen recording, 0.0 when the probe
\* failed
ScreenDuration(probe) == IF probe.ok THEN probe.dur ELSE 0

PipDelayOffset_NoBuffer(screen_start_offset) ==
    IF screen_start_offset = {} THEN 0 ELSE Unwrap(screen_start_offset)

\* Lines 426-430: screen_start_offset.unwrap_or(0.0) + 0.100
PipDelayOffset(screen_start_offset) ==
    (IF screen_start_offset = {} THEN 0 ELSE Unwrap(screen_start_offset))
        + LatencyBufferMicros

\* Lines 442 and 454: (delay_offset * 1000.0) as i32, of the offsets tried
PipDelayMs(screen_start_offset) ==
    IF screen_start_offset # {} /\ Unwrap(screen_start_offset) \in F64BelowWhole
    THEN PipDelayOffset(screen_start_offset) \div 1000 - 1
    ELSE PipDelayOffset(screen_start_offset) \div 1000

\* an audio chain of the filter graph: its input, the adelay in
\* milliseconds (None without adelay), aresample and apad
AudioChain(input, adelay) ==
    [input |-> input, adelay |-> adelay, aresample |-> TRUE, apad |-> TRUE]

\* Lines 371-515: the arguments handed to the engine and the value returned
composite_pip_video(in) ==
    LET use_screen_audio == in.include_system_audio /\ in.screen_has_audio
        use_webcam_audio == in.include_mic_audio /\ in.webcam_has_audio
        screen_duration == ScreenDuration(in.probe)
        delay_ms == PipDelayMs(in.screen_start_offset)
        audio ==
            IF use_screen_audio /\ use_webcam_audio
            THEN <<AudioChain("0:a", Some(delay_ms)), AudioChain("1:a", {})>>
            ELSE IF use_screen_audio
            THEN <<AudioChain("0:a", Some(delay_ms))>>
            ELSE IF use_webcam_audio
            THEN <<AudioChain("1:a", {})>>
            ELSE <<>>
    IN [args |-> [scale |-> PipSize(in.size),
                  audio |-> audio,
                  amix |-> use_screen_audio /\ use_webcam_audio,
                  t |-> IF screen_duration > 0
                        THEN Some(Format3(screen_duration)) ELSE {},
                  shortest |-> FALSE],
        ok |-> in.engine = "success",
        val |-> IF in.engine = "success" THEN "output_path"
                ELSE IF in.engine = "spawn_error" THEN "Failed to execute FFmpeg"
                ELSE "FFmpeg composite error"]

PipDraw == FnDraw(PipInputs)

PipApply == FnApply(composite_pip_video(fn_in))

PipNext == PipDraw \/ PipApply \/ FnReturn

PipSpec == FnInit /\ [][PipNext]_vars

\* the composite drawn uses the system audio and not the microphone
SystemAudioOnly(in) ==
    /\ in.include_system_audio /\ in.screen_has_audio
    /\ ~(in.include_mic_audio /\ in.webcam_has_audio)

\* the configured delay offset, in microseconds
ConfiguredDelay(in) ==
    IF in.screen_start_offset = {} THEN 0 ELSE Unwrap(in.screen_start_offset)

\* C25 as stated: in a PiP composite with system audio only and a
\* configured delay offset d, the screen audio chain is delayed by d plus
\* the fixed 0.100 s and padded, and the output duration is limited to the
\* measured duration of the screen track.
C25_ScreenAudioDelayedExact ==
    (fn_pc = "applied" /\ SystemAudioOnly(fn_in)) =>
        /\ Len(fn_out.args.audio) = 1
        /\ fn_out.args.audio[1].input = "0:a"
        /\ fn_out.args.audio[1].apad
        /\ fn_out.args.audio[1].adelay # {}
        /\ Unwrap(fn_out.args.audio[1].adelay) * 1000
               = ConfiguredDelay(fn_in) + 100000
        /\ fn_in.probe.ok => fn_out.args.t = {Format3(fn_in.probe.dur)}

\* C25 as amended: the delay is d plus 0.100 s cut to whole milliseconds,
\* at most one millisecond less than d + 0.100 s; the output duration is
\* limited to the measured duration of the screen track when the probe gave
\* a duration above zero, and is not limited otherwise.
C25_ScreenAudioDelayedMillis ==
    (fn_pc = "applied" /\ SystemAudioOnly(fn_in)) =>
        /\ Len(fn_out.args.audio) = 1
        /\ fn_out.args.audio[1].input = "0:a"
        /\ fn_out.args.audio[1].apad
        /\ fn_out.args.audio[1].adelay # {}
        /\ LET ms == Unwrap(fn_out.args.audio[1].adelay)
               exact == ConfiguredDelay(fn_in) + 100000
           IN ms * 1000 <= exact /\ exact <= ms * 1000 + 1000
        /\ IF fn_in.probe.ok /\ fn_in.probe.dur > 0
           THEN fn_out.args.t = {Format3(fn_in.probe.dur)}
           ELSE fn_out.args.t = {}

\* the scenario of the spec: system audio only, 0.15 s configured, a
\* measured duration: adelay=250, apad, -t 12.345
C25_Witness ==
    /\ fn_pc = "applied"
    /\ SystemAudioOnly(fn_in)
    /\ fn_in.screen_start_offset = {150000}
    /\ fn_in.probe = [ok |-> TRUE, dur |-> 12345]
    /\ fn_out.args.audio = <<AudioChain("0:a", {250})>>
    /\ fn_out.args.t = {"12.345"}

-----------------------------------------------------------------------------
(* The arguments export_video_blocking (lib.rs:877-1640) hands to the      *)
(* engine, step by step, when every input file exists and every step of    *)
(* the engine succeeds.  Times of type f64 are whole seconds here and are  *)
(* printed with {:.3}.                                                     *)

\* largest number of clips of a timeline whose arguments are built
MaxArgClips == 2

\* ClipData.duration, in seconds
ClipDurations == {0, 4}

\* ClipData.filters: None, or a brightness of 5
ClipFilterChoices ==
    {{}, Some([brightness |-> {5}, contrast |-> {}, saturation |-> {}])}

\* ClipData (lines 92-99)
ArgClipPool ==
    [start_time : StartTimes, track : Tracks, duration : ClipDurations,
     filters : ClipFilterChoices]

\* width and height (lines 879-880): the size of the source, or 1280x720
OutputSizes == {<<0, 0>>, <<1280, 720>>}

ArgInputs ==
    [clips : UNION {[1..n -> ArgClipPool] : n \in 0..MaxArgClips},
     size : OutputSizes,
     subtitleSrtPath : SubtitlePaths]

\* one invocation of the engine: the step, the video filters, the video
\* codec and the -t argument (None when it is not passed)
EngineStep(step, vf, codec, t) ==
    [step |-> step, vf |-> vf, codec |-> codec, t |-> t]

\* Lines 942-944, 1104-1106, 1157-1159, 1329-1331
ScaleFilter(width, height) ==
    IF width > 0 /\ height > 0
    THEN <<"scale=" \o ToString(width) \o ":" \o ToString(height)>>
    ELSE <<>>

\* Lines 947-950, 1109-1112, 1334-1337
ClipEqFilter(clip) ==
    LET eq == build_eq_filter(clip.filters).eq
    IN IF eq = {} THEN <<>> ELSE <<Unwrap(eq)>>

\* Lines 975-979, 1184-1188
SubtitleFilter(srt) ==
    IF srt = NoPath THEN <<>> ELSE <<"subtitles=./temp_subtitles.srt">>

\* Lines 925-927, 1091-1093, 1316-1318: -t of the clip if its duration is
\* above zero
ClipT(clip) ==
    IF clip.duration > 0 THEN Some(Format3(clip.duration * 1000)) ELSE {}

\* Lines 1076-1135 and 1302-1362: one clip of track 0 is cut to a temporary
\* file, always encoded anew, with the scale and its own colour filter
TrimStep(clip, width, height) ==
    EngineStep("trim", ScaleFilter(width, height) \o ClipEqFilter(clip),
               "libx264", ClipT(clip))

ConcatCodec_AlwaysCopy(vf_parts) == "copy"

\* Lines 1191-1202: if !vf_parts.is_empty() { -c:v libx264 } else { -c copy }
ConcatCodec(vf_parts) == IF vf_parts # <<>> THEN "libx264" ELSE "copy"

\* Lines 1147-1204: the temporary files are joined
ConcatStep(width, height, srt) ==
    LET vf_parts == ScaleFilter(width, height) \o SubtitleFilter(srt)
    IN EngineStep("concat", vf_parts, ConcatCodec(vf_parts), {})

\* Lines 904-1067: the only clip of the timeline is cut, scaled, filtered
\* and subtitled in one step
SingleStep(clip, width, height, srt) ==
    EngineStep("single",
               ScaleFilter(width, height) \o ClipEqFilter(clip)
                   \o SubtitleFilter(srt),
               "libx264", ClipT(clip))

Max(a, b) == IF a >= b THEN a ELSE b

\* iter().map(|c| c.start_time + c.duration).fold(0.0, f64::max)
RECURSIVE MaxEnd(_)
MaxEnd(clips) ==
    IF clips = <<>> THEN 0
    ELSE Max(MaxEnd(Tail(clips)), clips[1].start_time + clips[1].duration)

\* Lines 1295-1298: the fold runs over track_0_clips
max_duration(track_0_clips) == MaxEnd(track_0_clips)

\* Lines 1375-1394: the base video of track 0
BaseStep(track_0_clips, width, height) ==
    EngineStep("base",
               IF width > 0 /\ height > 0
               THEN <<"scale=" \o ToString(width) \o ":" \o ToString(height)
                      \o ",pad=" \o ToString(width) \o ":" \o ToString(height)
                      \o ":0:0:black">>
               ELSE <<>>,
               "libx264",
               IF max_duration(track_0_clips) > 0
               THEN Some(Format3(max_duration(track_0_clips) * 1000))
               ELSE {})

\* Lines 1427-1466: the only clip of track 1 over a black background of d
\* seconds, shown between its start and its end
OverlayStep(track_0_clips, clip) ==
    [step |-> "overlay",
     vf |-> <<"overlay=enable='between(t,"
              \o Format3(clip.start_time * 1000) \o ","
              \o Format3((clip.start_time + clip.duration) * 1000) \o ")'">>,
     codec |-> "libx264",
     d |-> Format3(max_duration(track_0_clips) * 1000),
     t |-> Some(Format3(max_duration(track_0_clips) * 1000))]

\* Lines 1478-1568: the base video, the overlay video and the subtitles
FinalStep(track_0_clips, track_1_clips, srt) ==
    EngineStep("final",
               (IF Len(track_1_clips) = 1 THEN <<"overlay">> ELSE <<"copy">>)
                   \o SubtitleFilter(srt),
               "libx264",
               Some(Format3(max_duration(track_0_clips) * 1000)))

ArgsOk(strategy, steps) == [ok |-> TRUE, strategy |-> strategy, steps |-> steps]

\* the steps taken before the error was returned
ArgsErr(strategy, steps) == [ok |-> FALSE, strategy |-> strategy, steps |-> steps]

\* Path::new(srt_path).exists() is false (lines 956, 1165, 1521)
SubtitleMissing(srt) == srt # NoPath /\ ~PathExists(ExportFs0, srt)

\* Lines 877-1640
export_video_args(in) ==
    LET width == in.size[1]
        height == in.size[2]
        srt == in.subtitleSrtPath
        sorted_clips == SortByStartTime(in.clips)
        track_0_clips == SortByStartTime(OnTrack(sorted_clips, 0))
        track_1_clips == OnTrack(sorted_clips, 1)
        track_2_clips == OnTrack(sorted_clips, 2)
        has_overlays == track_1_clips # <<>> \/ track_2_clips # <<>>
        trims == [i \in 1..Len(track_0_clips) |->
                     TrimStep(track_0_clips[i], width, height)]
    IN IF in.clips = <<>> THEN ArgsErr("none", <<>>)
       ELSE IF ~has_overlays /\ SingleClip(track_0_clips)
       THEN IF SubtitleMissing(srt) THEN ArgsErr("single", <<>>)
            ELSE ArgsOk("single",
                        <<SingleStep(track_0_clips[1], width, height, srt)>>)
       ELSE IF ~has_overlays
       THEN IF SubtitleMissing(srt) THEN ArgsErr("concat", trims)
            ELSE ArgsOk("concat",
                        Append(trims, ConcatStep(width, height, srt)))
       ELSE IF track_0_clips = <<>> THEN ArgsErr("composite", <<>>)
       ELSE LET built ==
                    Append(trims, BaseStep(track_0_clips, width, height))
                    \o (IF Len(track_1_clips) = 1
                        THEN <<OverlayStep(track_0_clips, track_1_clips[1])>>
                        ELSE <<>>)
            IN IF SubtitleMissing(srt) THEN ArgsErr("composite", built)
               ELSE ArgsOk("composite",
                           Append(built,
                                  FinalStep(track_0_clips, track_1_clips, srt)))

ArgsDraw == FnDraw(ArgInputs)

ArgsApply == FnApply(export_video_args(fn_in))

ArgsNext == ArgsDraw \/ ArgsApply \/ FnReturn

ArgsSpec == FnInit /\ [][ArgsNext]_vars

\* the steps of the given kind that were taken, in order
StepsOf(out, kind) == SelectSeq(out.steps, LAMBDA s : s.step = kind)

\* some clip of the timeline drawn has a colour filter
AnyClipFilter(in) ==
    \E i \in 1..Len(in.clips) : build_eq_filter(in.clips[i].filters).eq # {}

\* the timeline drawn was exported by cutting the clips of track 0 and
\* joining them
ConcatRan == fn_pc = "applied" /\ StepsOf(fn_out, "concat") # <<>>

\* C29 as stated: in a multi-clip track-0 export, if any clip has a colour
\* filter or subtitle burn-in is requested, the concatenation step encodes
\* the video anew instead of copying the stream.
C29_ConcatReencodesOnAnyFilter ==
    (ConcatRan
     /\ (AnyClipFilter(fn_in) \/ fn_in.subtitleSrtPath # NoPath)) =>
        StepsOf(fn_out, "concat")[1].codec = "libx264"

\* C29 as amended: the concatenation step encodes the video anew exactly
\* when subtitle burn-in or an output size (width and height above zero) is
\* requested, and copies the stream otherwise; the colour filter of a clip
\* is applied in the step that cuts the clip, which always encodes anew, and
\* is no filter of the concatenation step.
C29_ConcatReencodesOnScaleOrSubtitles ==
    ConcatRan =>
        LET concat == StepsOf(fn_out, "concat")[1]
            trims == StepsOf(fn_out, "trim")
            track0 == SortByStartTime(fn_in.clips)
            wanted == fn_in.subtitleSrtPath # NoPath
                      \/ (fn_in.size[1] > 0 /\ fn_in.size[2] > 0)
        IN /\ concat.codec = (IF wanted THEN "libx264" ELSE "copy")
           /\ \A f \in Range(concat.vf) : f # "eq=brightness=0.050"
           /\ Len(trims) = Len(track0)
           /\ \A i \in 1..Len(trims) :
                 /\ trims[i].codec = "libx264"
                 /\ (build_eq_filter(track0[i].filters).eq # {})
                        <=> ("eq=brightness=0.050" \in Range(trims[i].vf))

\* two clips of track 0, one with a colour filter, no output size and no
\* subtitles: the clip is filtered where it is cut and the joined stream is
\* copied
C29_Witness ==
    /\ ConcatRan
    /\ Len(fn_in.clips) = 2
    /\ AnyClipFilter(fn_in)
    /\ fn_in.size = <<0, 0>>
    /\ fn_in.subtitleSrtPath = NoPath
    /\ StepsOf(fn_out, "concat")[1].codec = "copy"
    /\ \E i \in 1..2 : StepsOf(fn_out, "trim")[i].vf = <<"eq=brightness=0.050">>

\* the largest start_time + duration over all clips of the timeline
TimelineEnd(in) == MaxEnd(in.clips)

\* C30: in a multi-track export, the duration of the base video, of the
\* overlay layer and of the final output all equal the maximum of
\* start-time + duration taken over all clips of the timeline, overlay
\* clips included.
C30_DurationsCoverAllClips ==
    (fn_pc = "applied" /\ fn_out.strategy = "composite") =>
        \A i \in 1..Len(fn_out.steps) :
            fn_out.steps[i].step \in {"base", "overlay", "final"} =>
                fn_out.steps[i].t = Some(Format3(TimelineEnd(fn_in) * 1000))

-----------------------------------------------------------------------------
(* Overlay layers of a multi-track export *)

\* the clips of the timeline drawn that lie on track 1 or on track 2
OverlayClips(in) ==
    OnTrack(SortByStartTime(in.clips), 1) \o OnTrack(SortByStartTime(in.clips), 2)

\* C31: for every timeline with overlay clips, each clip on track 1 and
\* each clip on track 2 is built into its own overlay layer step, and the
\* final composite step overlays every such layer; no overlay clip is left
\* out of the output.
C31_EveryOverlayClipHasLayer ==
    (fn_pc = "applied" /\ fn_out.ok /\ fn_out.strategy = "composite") =>
        /\ Len(StepsOf(fn_out, "overlay")) = Len(OverlayClips(fn_in))
        /\ \A i \in 1..Len(OverlayClips(fn_in)) :
              StepsOf(fn_out, "overlay")[i].vf =
                  OverlayStep(<<>>, OverlayClips(fn_in)[i]).vf
        /\ "overlay" \in Range(StepsOf(fn_out, "final")[1].vf)

-----------------------------------------------------------------------------
(* Claims C33, C34, C39: the session between and across the commands *)

\* no start and no stop is in progress
Quiet == \A c \in Callers : pc[c] = "idle"

\* C33: whenever no start or stop call is in progress, the session fields
\* are mutually consistent: is_recording is true exactly when output_path,
\* video_start_time, the process id and the stored child handle are all
\* present (and none of them is present otherwise), and audio_start_time is
\* present only when is_recording is true.
C33_SessionFieldsConsistent ==
    Quiet =>
        /\ session.is_recording =>
              /\ session.output_path # ""
              /\ session.video_start_time # None
              /\ session.ffmpeg_process # None
              /\ ffmpeg_child # 0
              /\ ffmpeg_child = session.ffmpeg_process
        /\ ~session.is_recording =>
              /\ session.output_path = ""
              /\ session.video_start_time = None
              /\ session.ffmpeg_process = None
              /\ ffmpeg_child = 0
        /\ session.audio_start_time # None => session.is_recording

\* a session was recorded and stopped, and no call is in progress
C33_Witness ==
    /\ Quiet
    /\ ret.op = "stop"
    /\ ret.ok
    /\ session = NoSession
    /\ ffmpeg_child = 0
    /\ next_pid > 1

\* C34: in every reachable session state where both timestamps are
\* present, the audio-start timestamp is not earlier than the video-start
\* timestamp, so the offset computed on stop is never positive and the mux
\* step never takes the trim branch.
C34_AudioNeverBeforeVideo ==
    /\ (session.audio_start_time # None /\ session.video_start_time # None) =>
          session.audio_start_time >= session.video_start_time
    /\ \A c \in Callers :
          /\ local[c].audio_offset <= 0
          /\ local[c].filter.kind # "atrim"

\* a stop of a session with both timestamps has run the mux step with a
\* delay of the audio
C34_Witness ==
    \E c \in Callers :
        /\ pc[c] = "stop_cleanup"
        /\ local[c].audio_offset < 0
        /\ local[c].filter.kind = "adelay"

\* C39: if start returns an error (session already active, output path not
\* ending in .mp4, or the video process fails to spawn), the session
\* fields, the stored child handle and the audio capture state are all
\* unchanged and no audio capture thread has been started.
C39_FailedStartChangesNothing ==
    [][\A c \in Callers, p \in OutputPaths :
          (StartBegin(c, p) /\ ~ret'.ok) =>
              /\ ret' \in {Err("start", "Recording already in progress"),
                          Err("start", "Output path must end with .mp4"),
                          Err("start", "Failed to start FFmpeg")}
              /\ UNCHANGED <<session, ffmpeg_child, audio_state, threads,
                             next_tid, procs>>]_vars

\* a start failed to spawn the video process while no session was active
C39_Witness ==
    /\ ret = Err("start", "Failed to start FFmpeg")
    /\ ~session.is_recording
    /\ threads = {}
    /\ ~audio_state.is_recording

-----------------------------------------------------------------------------
(* Claim C36: the temporary files of a session that is being stopped *)

\* the stop of caller c is between the release of the session lock and its
\* return
Finishing(c) == pc[c] \in {"stop_check"} \cup MuxStages

\* the temporary file f holds nothing that another session than the one
\* with video process pid wrote
OwnOrAbsent(f, pid) ==
    \/ files[f] = NoFile
    \/ files[f][1] = "video" /\ files[f][2] = pid
    \/ files[f][1] = "audio"

\* C36: while a stop is probing, muxing or deleting the temporary
\* video-only and audio-only files of the session it stopped, no other
\* session writes those files: a start issued with the same output path
\* after stop released the session lock but before stop returned cannot
\* overwrite the files being muxed, and the cleanup of stop never deletes
\* temporary files that belong to a newer session.
C36_TemporariesOfStoppedSessionUntouched ==
    \A c \in Callers :
        (Finishing(c) /\ local[c].pid # 0) =>
            /\ OwnOrAbsent(VideoOnlyPath(local[c].output_path), local[c].pid)
            /\ \A p \in procs : p.path = VideoOnlyPath(local[c].output_path)
                                    => p.pid = local[c].pid

-----------------------------------------------------------------------------
(* Claim C35: the locks and the return of every call *)

\* the next step of the command caller c is in
Continue(c) ==
    \/ StartAudio(c) \/ StartStore(c)
    \/ StopTakeChild(c) \/ StopPoll(c) \/ StopKill(c) \/ StopAudio(c)
    \/ StopJoin(c) \/ StopClear(c) \/ StopCheckAudio(c) \/ StopProbe(c)
    \/ StopMux(c) \/ StopFallback(c) \/ StopCleanup(c)

\* the next step of audio capture thread tid
ThreadRuns(tid) == AudioThreadOpen(tid) \/ AudioThreadStop(tid)

\* The steps of Next with the warm-up sleep taking its nominal time: how
\* long a sleep takes has no part in which lock is taken when.
LiveNext == Next /\ clock' \in {clock, clock + WarmUpMicros}

\* The operating system schedules every thread that can run: a caller that
\* is inside a command and not blocked takes its next step, and so does an
\* audio capture thread.  The processes started by a command (the probes and
\* the mux) end, which is part of the step that runs them.
LiveSpec ==
    /\ Init
    /\ [][LiveNext]_vars
    /\ \A c \in Callers : WF_vars(Continue(c))
    /\ \A tid \in 1..MaxSessions : WF_vars(ThreadRuns(tid))

\* C35: under every interleaving of concurrent start, stop and status
\* calls, the three locks (session, child handle, audio state) are never
\* acquired in conflicting orders: no deadlock is reachable and every call
\* eventually returns.
C35_EveryCallReturns ==
    \A c \in Callers : (pc[c] # "idle") ~> (pc[c] = "idle")

\* a start that holds the session lock waits for the child lock, which a
\* stop that has released the session lock still holds
C35_Witness ==
    \E c, d \in Callers :
        /\ pc[c] = "start_store"
        /\ sessionLock = c
        /\ childLock = d
        /\ Finishing(d)

-----------------------------------------------------------------------------
(* Claim C32: the end of the audio capture thread *)

\* audio capture thread tid is in its loop and the stop signal was sent
SignalledInLoop(tid) ==
    \E t \in threads : t.tid = tid /\ t.st = "running" /\ t.signalled

\* audio capture thread tid has finalized the container and ended
EndedFinalized(tid) ==
    \E t \in threads : t.tid = tid /\ t.st = "finished" /\ t.finalized

-----------------------------------------------------------------------------
(* The three functions of audio_capture.rs called on their own, by callers *)
(* that share nothing but AUDIO_STATE.  Each stretch of code under the     *)
(* AUDIO_STATE lock is one step: nothing in it can block.                  *)

AudioUnchanged ==
    UNCHANGED <<session, sessionLock, ffmpeg_child, childLock, procs, files,
                clock, next_pid>>

\* audio_capture.rs:20-210: start_audio_capture(output_path)
AudioStart(c) ==
    /\ pc[c] = "idle"
    /\ next_tid <= MaxSessions
    /\ LET r == start_audio_capture(AudioPath("a.mp4"))
       IN /\ audio_state' = r[1]
          /\ threads' = r[2]
          /\ next_tid' = IF r[3] THEN next_tid + 1 ELSE next_tid
          /\ Return(c, IF r[3] THEN Ok("start_audio", <<>>, "none")
                       ELSE Err("start_audio", "Audio capture already in progress"))
    /\ AudioUnchanged
    /\ UNCHANGED <<offsetVars, exportVars, fnVars>>

\* audio_capture.rs:217-232 and 239-244: stop_audio_capture() up to the
\* join: the signal is sent through the sender taken out of the state, the
\* thread handle is taken out and the lock is released; without a handle
\* is_recording is reset at once.
AudioStopBegin(c) ==
    /\ pc[c] = "idle"
    /\ IF ~audio_state.is_recording
       THEN /\ Return(c, Err("stop_audio", "No audio capture session active"))
            /\ UNCHANGED <<audio_state, threads>>
       ELSE /\ threads' = {IF t.tid = audio_state.stop_signal
                           THEN [t EXCEPT !.signalled = TRUE] ELSE t : t \in threads}
            /\ IF audio_state.recording_thread # 0
               THEN /\ audio_state' = [audio_state EXCEPT !.stop_signal = 0,
                                                          !.recording_thread = 0]
                    /\ local' = [local EXCEPT ![c].join = audio_state.recording_thread]
                    /\ Goto(c, "audio_join")
                    /\ ret' = NoRet
               ELSE /\ audio_state' = [audio_state EXCEPT !.stop_signal = 0,
                                                          !.is_recording = FALSE]
                    /\ Return(c, Ok("stop_audio", <<>>, "none"))
    /\ UNCHANGED next_tid
    /\ AudioUnchanged
    /\ UNCHANGED <<offsetVars, exportVars, fnVars>>

\* audio_capture.rs:234-244: thread.join() returns once the thread has
\* ended; the lock is taken again and is_recording is reset.
AudioStopJoin(c) ==
    /\ pc[c] = "audio_join"
    /\ \E t \in threads :
          /\ t.tid = local[c].join
          /\ t.st = "finished"
          /\ threads' = threads \ {t}
    /\ audio_state' = [audio_state EXCEPT !.is_recording = FALSE]
    /\ Return(c, Ok("stop_audio", <<>>, "none"))
    /\ UNCHANGED next_tid
    /\ AudioUnchanged
    /\ UNCHANGED <<offsetVars, exportVars, fnVars>>

\* audio_capture.rs:247-250: is_audio_capturing()
AudioQuery(c) ==
    /\ pc[c] = "idle"
    /\ Return(c, Ok("is_audio_capturing", <<audio_state.is_recording>>, "none"))
    /\ UNCHANGED <<audio_state, threads, next_tid>>
    /\ AudioUnchanged
    /\ UNCHANGED <<offsetVars, exportVars, fnVars>>

AudioNext ==
    \/ \E c \in Callers : AudioStart(c)
    \/ \E c \in Callers : AudioStopBegin(c)
    \/ \E c \in Callers : AudioStopJoin(c)
    \/ \E c \in Callers : AudioQuery(c)
    \/ \E tid \in 1..MaxSessions : AudioThreadOpen(tid)
    \/ \E tid \in 1..MaxSessions : AudioThreadStop(tid)

AudioSpec == Init /\ [][AudioNext]_vars

\* the audio capture threads that have not ended
AliveThreads == {t \in threads : t.st # "finished"}

\* C38: under every interleaving of start_audio_capture, stop_audio_capture
\* and is_audio_capturing calls (two concurrent stops followed by a start
\* included), at most one audio capture thread is alive at any time, and no
\* running capture thread is left with is_recording false.
C38_OneThreadAndFlagSet ==
    /\ Cardinality(AliveThreads) <= 1
    /\ (\E t \in AliveThreads : ~t.signalled) => audio_state.is_recording

-----------------------------------------------------------------------------
(* The size and the position of the overlay of a multi-track export:       *)
(* calculate_overlay_pos (lib.rs:768-777) and its two callers' sizes       *)
(* (lines 1432-1434 and 1489-1495).                                        *)

\* width and height of the output; 0 keeps the size of the source
OutputWidths == {0, 320, 640, 1280, 1920}

OutputHeights == {0, 240, 480, 720, 1080}

\* overlay_positions.track1: None, or a name
PositionChoices ==
    {{}} \cup {Some(p) : p \in {"bottom-left", "bottom-right", "top-left",
                                "top-right", "center", "middle"}}

PosInputs ==
    [width : OutputWidths, height : OutputHeights, track1 : PositionChoices]

\* (x as f64 * 0.3) as u32, of the widths and heights tried
ThreeTenths(x) == (x * 3) \div 10

\* a - b of two u32: below zero the debug build panics and the release
\* build wraps around; the marker -1 stands for both
SubU32(a, b) == IF a < b THEN -1 ELSE a - b

\* Lines 768-777
calculate_overlay_pos(position, base_w, base_h, overlay_w, overlay_h, padding) ==
    LET right == SubU32(SubU32(base_w, overlay_w), padding)
        bottom == SubU32(SubU32(base_h, overlay_h), padding)
    IN IF position = "bottom-left" THEN <<padding, bottom>>
       ELSE IF position = "bottom-right" THEN <<right, bottom>>
       ELSE IF position = "top-left" THEN <<padding, padding>>
       ELSE IF position = "top-right" THEN <<right, padding>>
       ELSE IF position = "center"
       THEN <<SubU32(base_w, overlay_w) \div 2, SubU32(base_h, overlay_h) \div 2>>
       ELSE <<right, bottom>>

\* Lines 1433-1434: the size the overlay layer is rendered at
LayerSize(width, height) ==
    <<IF width > 0 THEN ThreeTenths(width) ELSE 320,
      IF height > 0 THEN ThreeTenths(height) ELSE 180>>

\* Lines 1490-1491: the size of the overlay the position is computed from
PlacedSize(width, height) ==
    <<ThreeTenths(Max(width, 640)), ThreeTenths(Max(height, 480))>>

\* Lines 1492-1494
PositionName(track1) == IF track1 = {} THEN "bottom-right" ELSE Unwrap(track1)

\* Lines 1432-1434 and 1489-1503: the overlay layer's size, the size the
\* position is computed from and the position of the final step
overlay_geometry(in) ==
    LET placed == PlacedSize(in.width, in.height)
    IN [layer |-> LayerSize(in.width, in.height),
        placed |-> placed,
        position |-> PositionName(in.track1),
        pos |-> calculate_overlay_pos(PositionName(in.track1),
                                      Max(in.width, 640), Max(in.height, 480),
                                      placed[1], placed[2], 20)]

PosDraw == FnDraw(PosInputs)

PosApply == FnApply(overlay_geometry(fn_in))

PosNext == PosDraw \/ PosApply \/ FnReturn

PosSpec == FnInit /\ [][PosNext]_vars

\* C40: for every output width and height, the overlay size used to compute
\* the overlay's pixel position in the final composite equals the size the
\* overlay layer was rendered at, the position arithmetic does not
\* underflow, and the overlay rectangle lies entirely inside the output
\* frame (where the output size is given) at the configured corner with the
\* fixed padding.
C40_OverlayInsideFrame ==
    fn_pc = "applied" =>
        /\ fn_out.placed = fn_out.layer
        /\ fn_out.pos[1] >= 0 /\ fn_out.pos[2] >= 0
        /\ (fn_in.width > 0 /\ fn_in.height > 0) =>
              /\ fn_out.pos[1] + fn_out.layer[1] <= fn_in.width
              /\ fn_out.pos[2] + fn_out.layer[2] <= fn_in.height
              /\ fn_out.position = "bottom-right" =>
                    /\ fn_out.pos[1] + fn_out.layer[1] + 20 = fn_in.width
                    /\ fn_out.pos[2] + fn_out.layer[2] + 20 = fn_in.height

-----------------------------------------------------------------------------
(* Two exports at once.  export_video (lib.rs:541-613) is an async command *)
(* that hands its work to tokio::task::spawn_blocking and takes no lock,   *)
(* so a second invocation runs export_video_blocking while the first is    *)
(* still in it.  Each caller is one such task; the tasks share the         *)
(* temporary directory (ex_files), and a task can be overtaken wherever it *)
(* waits for the engine.  A file written by a task carries the task in its *)
(* content.  No subtitles are asked for.                                   *)

\* the timelines the two tasks are given: nothing, or a clip on track 0 at
\* time 0 followed by clips at time 3 on any track
TaskTimelines ==
    {t \in Timelines :
        \A i \in 1..Len(t) :
            /\ t[i].file_path = "x.mp4"
            /\ t[i].start_time = (IF i = 1 THEN 0 ELSE 3)
            /\ i = 1 => t[i].track = 0}

\* number of exports each task runs
MaxExports == 1

\* the output path of each task: the two exports write different files
OutputOf(a) == IF a = 1 THEN "o.mp4" ELSE "o.mov"

\* the local variables of one task; runs counts the exports it has begun
NoTask ==
    [runs |-> 0, outputPath |-> "", track_0_clips |-> <<>>, track_1_clips |-> <<>>,
     i |-> 0, temp_files |-> <<>>, overlay1_video |-> NoPath]

\* the content of a file that task a has written in the given step
Made(a, kind) == <<kind, a>>

\* the task that wrote the content, 0 for a file no export wrote
WrittenBy(content) == IF Len(content) = 2 THEN content[2] ELSE 0

\* the task that wrote the file
Owner(fs, f) == WrittenBy(fs[f])

TasksInit ==
    /\ session = NoSession
    /\ sessionLock = 0
    /\ ffmpeg_child = 0
    /\ childLock = 0
    /\ audio_state = NoAudioState
    /\ procs = {}
    /\ threads = {}
    /\ files = [f \in FileNames |-> NoFile]
    /\ clock = 0
    /\ next_pid = 1
    /\ next_tid = 1
    /\ pc = [c \in Callers |-> "idle"]
    /\ local = [c \in Callers |-> NoTask]
    /\ ret = NoRet
    /\ off_in = [audio |-> None, video |-> None]
    /\ off_out = NoOffsetOut
    /\ off_pc = "off"
    /\ ex_in = NoExportIn
    /\ ex_pc = "off"
    /\ ex_local = NoExportLocal
    /\ ex_files = ExportFs0
    /\ ex_log = <<>>
    /\ ex_created = {}
    /\ ex_ret = NoRet
    /\ FnOff

TasksUnchanged ==
    UNCHANGED <<session, sessionLock, ffmpeg_child, childLock, audio_state,
                procs, threads, files, clock, next_pid, next_tid,
                offsetVars, ex_in, ex_pc, ex_local, ex_created, ex_ret, fnVars>>

\* the task returns, its locals are gone
TaskReturn(a, r) ==
    /\ ret' = r
    /\ pc' = [pc EXCEPT ![a] = "idle"]
    /\ local' = [local EXCEPT ![a] = [NoTask EXCEPT !.runs = local[a].runs]]

\* the task goes on with new locals
TaskGoto(a, label, l) ==
    /\ pc' = [pc EXCEPT ![a] = label]
    /\ local' = [local EXCEPT ![a] = l]
    /\ UNCHANGED ret

\* the engine ran for task a with outcome o: the step, and the contents of
\* the inputs it has read (those that exist in fs, none if it could not be
\* started)
EngineRan(a, kind, fs, inputs, o) ==
    ex_log' = <<[by |-> a, step |-> kind,
                 read |-> IF o = "spawn_error" THEN {}
                          ELSE {fs[f] : f \in inputs \cap DOMAIN fs}]>>

\* Lines 541-613, 893-904 and 1289-1293: the clips are sorted and split by
\* track, the strategy is chosen from the shape of the timeline.
TaskBegin(a, clips, out) ==
    /\ pc[a] = "idle"
    /\ local[a].runs < MaxExports
    /\ IF clips = <<>>
       THEN /\ ret' = ExErr(<<"No clips to export">>)
            /\ local' = [local EXCEPT ![a].runs = @ + 1]
            /\ UNCHANGED pc
       ELSE IF ~SupportedExtension(out)
       THEN /\ ret' = ExErr(<<"Output path must end with .mp4 or .mov, got", out>>)
            /\ local' = [local EXCEPT ![a].runs = @ + 1]
            /\ UNCHANGED pc
       ELSE LET sorted_clips == SortByStartTime(clips)
                track_0_clips == SortByStartTime(OnTrack(sorted_clips, 0))
                track_1_clips == OnTrack(sorted_clips, 1)
                track_2_clips == OnTrack(sorted_clips, 2)
                has_overlays == track_1_clips # <<>> \/ track_2_clips # <<>>
                l == [NoTask EXCEPT !.runs = local[a].runs + 1,
                                    !.outputPath = out,
                                    !.track_0_clips = track_0_clips,
                                    !.track_1_clips = track_1_clips]
            IN IF ~has_overlays
               THEN TaskGoto(a, IF SingleClip(track_0_clips) THEN "single"
                                ELSE "trim", l)
               ELSE IF track_0_clips = <<>>
               THEN /\ ret' = ExErr(<<"Track 0 (Main Video) must have at least one clip">>)
                    /\ local' = [local EXCEPT ![a].runs = @ + 1]
                    /\ UNCHANGED pc
               ELSE TaskGoto(a, "base_trim", l)
    /\ UNCHANGED <<ex_files, ex_log>>
    /\ TasksUnchanged

\* Lines 904-1067: the single clip is transcoded into the output file; no
\* temporary file is used.
TaskSingle(a) ==
    /\ pc[a] = "single"
    /\ LET clip == local[a].track_0_clips[1]
           out == local[a].outputPath
       IN IF ~PathExists(ex_files, clip.file_path)
          THEN /\ TaskReturn(a, ExErr(<<"Input video file not found", clip.file_path>>))
               /\ UNCHANGED <<ex_files, ex_log>>
          ELSE \E o \in Outcomes :
                  /\ EngineCan(ex_files, {clip.file_path}, o)
                  /\ EngineRan(a, "transcode", ex_files, {clip.file_path}, o)
                  /\ ex_files' = AfterEngine(ex_files, out, Made(a, "transcode"), o)
                  /\ IF o = "spawn_error"
                     THEN TaskReturn(a, ExErr(<<"Failed to execute FFmpeg", "io">>))
                     ELSE IF o = "exit_failure"
                     THEN TaskReturn(a, ExErr(<<"FFmpeg failed with exit code", "code">>))
                     ELSE TaskReturn(a, OutputChecked(ex_files', out,
                                                     "Video exported successfully to"))
    /\ TasksUnchanged

\* Lines 1076-1135: one iteration of the trim loop of the concatenation
\* strategy, into clip_{i}.mp4 of the temporary directory.
TaskTrim(a) ==
    /\ pc[a] = "trim"
    /\ LET i == local[a].i
           clip == local[a].track_0_clips[i + 1]
           temp_file == TempName("clip_", i)
       IN \E o \in Outcomes :
             /\ EngineCan(ex_files, {clip.file_path}, o)
             /\ EngineRan(a, "trim", ex_files, {clip.file_path}, o)
             /\ ex_files' = AfterEngine(ex_files, temp_file, Made(a, "clip"), o)
             /\ IF o = "spawn_error"
                THEN TaskReturn(a, ExErr(<<"Failed to execute FFmpeg for clip",
                                           ToString(i), "io">>))
                ELSE IF ~Succeeded(o)
                THEN TaskReturn(a, ExErr(<<"Failed to trim clip", ToString(i),
                                           "exit code">>))
                ELSE TaskGoto(a, IF i + 1 = Len(local[a].track_0_clips)
                                 THEN "concat" ELSE "trim",
                              [local[a] EXCEPT !.temp_files = Append(@, temp_file),
                                               !.i = i + 1])
    /\ TasksUnchanged

\* Lines 1137-1277: concat_list.txt is written, the temporary files are
\* joined into the output file, the temporary files and the list are
\* removed.
TaskConcat(a) ==
    /\ pc[a] = "concat"
    /\ LET out == local[a].outputPath
           temp_files == local[a].temp_files
           concat_file == "concat_list.txt"
           listed == Put(ex_files, concat_file, Made(a, "list"))
           temps == Range(temp_files) \cup {concat_file}
       IN \/ /\ TaskReturn(a, ExErr(<<"Failed to write concat file", "io">>))
             /\ UNCHANGED <<ex_files, ex_log>>
          \/ \E o \in Outcomes :
                /\ EngineCan(listed, temps, o)
                /\ EngineRan(a, "concat", listed, temps, o)
                /\ IF o = "spawn_error"
                   THEN /\ TaskReturn(a, ExErr(<<"Failed to execute FFmpeg concat", "io">>))
                        /\ ex_files' = listed
                   ELSE /\ ex_files' = ExportCleanup(
                               AfterEngine(listed, out, Made(a, "concat"), o), temps)
                        /\ IF o = "exit_failure"
                           THEN TaskReturn(a, ExErr(<<"Concatenation failed with exit code", "code">>))
                           ELSE TaskReturn(a, ExOk("Video exported successfully to", out))
    /\ TasksUnchanged

\* Lines 1301-1361: one iteration of the trim loop of the composite
\* strategy, into track0_clip_{i}.mp4 of the temporary directory.
TaskBaseTrim(a) ==
    /\ pc[a] = "base_trim"
    /\ LET i == local[a].i
           clip == local[a].track_0_clips[i + 1]
           temp_file == TempName("track0_clip_", i)
       IN \E o \in Outcomes :
             /\ EngineCan(ex_files, {clip.file_path}, o)
             /\ EngineRan(a, "base_trim", ex_files, {clip.file_path}, o)
             /\ ex_files' = AfterEngine(ex_files, temp_file, Made(a, "clip"), o)
             /\ IF o = "success"
                THEN TaskGoto(a, IF i + 1 = Len(local[a].track_0_clips)
                                 THEN "base" ELSE "base_trim",
                              [local[a] EXCEPT !.temp_files = Append(@, temp_file),
                                               !.i = i + 1])
                ELSE IF o = "spawn_error"
                THEN TaskReturn(a, ExErr(<<"Failed to execute FFmpeg for Track 0 clip",
                                           ToString(i), "io">>))
                ELSE IF o = "exit_failure"
                THEN TaskReturn(a, ExErr(<<"Failed to process Track 0 clip",
                                           ToString(i), "FFmpeg error", "stderr">>))
                ELSE TaskReturn(a, ExErr(<<"Track 0 clip output file was not created",
                                           ToString(i)>>))
    /\ TasksUnchanged

\* Lines 1363-1421: track0_concat.txt is written and base_track0.mp4 is
\* built from the clip files; on failure the clip files are removed.
TaskBase(a) ==
    /\ pc[a] = "base"
    /\ LET temp_files == local[a].temp_files
           track0_concat == "track0_concat.txt"
           base_video == "base_track0.mp4"
           listed == Put(ex_files, track0_concat, Made(a, "list"))
           inputs == Range(temp_files) \cup {track0_concat}
       IN \/ /\ TaskReturn(a, ExErr(<<"Failed to write concat file", "io">>))
             /\ UNCHANGED <<ex_files, ex_log>>
          \/ \E o \in Outcomes :
                /\ EngineCan(listed, inputs, o)
                /\ EngineRan(a, "base", listed, inputs, o)
                /\ IF o = "spawn_error"
                   THEN /\ TaskReturn(a, ExErr(<<"Failed to execute FFmpeg for base video", "io">>))
                        /\ ex_files' = listed
                   ELSE IF o = "exit_failure"
                   THEN /\ TaskReturn(a, ExErr(<<"Failed to create base video from Track 0",
                                                 "FFmpeg error", "stderr">>))
                        /\ ex_files' = ExportCleanup(listed, Range(temp_files))
                   ELSE IF o = "success_no_file"
                   THEN /\ TaskReturn(a, ExErr(<<"Base video file was not created">>))
                        /\ ex_files' = ExportCleanup(listed, Range(temp_files))
                   ELSE /\ ex_files' = Put(listed, base_video, Made(a, "base"))
                        /\ TaskGoto(a, IF Len(local[a].track_1_clips) = 1
                                       THEN "overlay" ELSE "final", local[a])
    /\ TasksUnchanged

\* Lines 1423-1476: the one clip of track 1 is built into overlay1.mp4.
TaskOverlay(a) ==
    /\ pc[a] = "overlay"
    /\ LET clip == local[a].track_1_clips[1]
           overlay_temp == "overlay1.mp4"
       IN \E o \in Outcomes :
             /\ EngineCan(ex_files, {clip.file_path}, o)
             /\ EngineRan(a, "overlay", ex_files, {clip.file_path}, o)
             /\ ex_files' = AfterEngine(ex_files, overlay_temp, Made(a, "overlay"), o)
             /\ IF o = "spawn_error"
                THEN TaskReturn(a, ExErr(<<"Failed to execute FFmpeg for overlay 1", "io">>))
                ELSE IF o = "success"
                THEN TaskGoto(a, "final",
                              [local[a] EXCEPT !.overlay1_video = overlay_temp])
                ELSE TaskReturn(a, ExErr(<<"Failed to create overlay 1 video file",
                                           "FFmpeg error", "stderr">>))
    /\ TasksUnchanged

\* Lines 1478-1661: the base video and the overlay layer are composed into
\* the output file, the temporary files are removed.
TaskFinal(a) ==
    /\ pc[a] = "final"
    /\ LET out == local[a].outputPath
           base_video == "base_track0.mp4"
           overlay1 == IF local[a].overlay1_video = NoPath THEN {}
                       ELSE {local[a].overlay1_video}
           temps == Range(local[a].temp_files)
                    \cup {"track0_concat.txt", base_video} \cup overlay1
       IN \E o \in Outcomes :
             /\ EngineCan(ex_files, {base_video} \cup overlay1, o)
             /\ EngineRan(a, "final", ex_files, {base_video} \cup overlay1, o)
             /\ IF o = "spawn_error"
                THEN /\ TaskReturn(a, ExErr(<<"Failed to composite video", "io">>))
                     /\ UNCHANGED ex_files
                ELSE /\ ex_files' = ExportCleanup(
                            AfterEngine(ex_files, out, Made(a, "composite"), o), temps)
                     /\ IF o = "exit_failure"
                        THEN TaskReturn(a, ExErr(<<"Failed to composite multi-track video">>))
                        ELSE TaskReturn(a, ExOk("Multi-track video exported successfully to", out))
    /\ TasksUnchanged

\* a step of task a other than its beginning
ExportTask(a) ==
    \/ TaskSingle(a)
    \/ TaskTrim(a)
    \/ TaskConcat(a)
    \/ TaskBaseTrim(a)
    \/ TaskBase(a)
    \/ TaskOverlay(a)
    \/ TaskFinal(a)

TasksNext ==
    \E a \in Callers :
        \/ \E clips \in TaskTimelines : TaskBegin(a, clips, OutputOf(a))
        \/ TaskSingle(a)
        \/ TaskTrim(a)
        \/ TaskConcat(a)
        \/ TaskBaseTrim(a)
        \/ TaskBase(a)
        \/ TaskOverlay(a)
        \/ TaskFinal(a)

TasksSpec == TasksInit /\ [][TasksNext]_vars

\* the intermediate files on disk: the files an export wrote, its output
\* file apart
Intermediate(fs) ==
    {f \in DOMAIN fs : Owner(fs, f) # 0 /\ f \notin ExportPaths}

\* C37: two exports running concurrently do not interfere through
\* temporary files: no step of an export overwrites or deletes an
\* intermediate file (per-clip file, concatenation list, base video, overlay
\* layer) that the other export wrote and that export is still running, and
\* no step reads as input an intermediate file the other export wrote.
C37_ExportsDoNotInterfere ==
    [][\A a \in Callers :
          ExportTask(a) =>
             /\ \A f \in Intermediate(ex_files) :
                   (Owner(ex_files, f) # a /\ pc[Owner(ex_files, f)] # "idle") =>
                       /\ f \in DOMAIN ex_files'
                       /\ ex_files'[f] = ex_files[f]
             /\ ex_log' # ex_log =>
                   \A content \in ex_log'[1].read :
                       WrittenBy(content) \in {0, a}]_vars

=============================================================================
